---- MODULE Spec2Model ----
(***************************************************************************)
(* Request-admission layer of the coaching chat backend: the in-memory     *)
(* fixed-window rate limiter (createRateLimiter / checkRateLimit) and the  *)
(* chat wrapper that prefers the Upstash limiter and falls back to the     *)
(* in-memory one (checkChatRateLimit).                                     *)
(*                                                                         *)
(* Time is in milliseconds, as Date.now() returns it.  The store is the    *)
(* Map of the limiter, kept as the sequence of its entries in insertion    *)
(* order (the order Map.entries() iterates in).                            *)
(***************************************************************************)
EXTENDS Integers, Sequences, FiniteSets, TLC

(***************************************************************************)
(* Bounds of the exploration.                                              *)
(***************************************************************************)
\* Entry cap of the scaled-down limiters, in place of the program's 10000,
\* so that a capacity eviction is reachable.
MaxEntries == 2
\* The scaled-down policy: window length in ms and admitted calls per window.
SmallWindow == 1
SmallMax == 2
\* The watched caller stops after this many attempts past the limit in one
\* window; every other caller makes at most MaxOther attempts per window.
MaxOver == 2
MaxOther == 2
\* The clock is advanced at most this many times (see Elapsed).
MaxAdvance == 2
\* (The run with four callers is explored less far, see Narrow.)
\* Chat checks in flight at once, and POSTs of the sync hook under way.
MaxInflight == 2
MaxPosts == 2

(***************************************************************************)
(* Program constants.                                                      *)
(***************************************************************************)
RATE_LIMIT_MAX_ENTRIES == 10000

CHAT_RATE_WINDOW == 5 * 60 * 1000
CHAT_RATE_MAX == 20
ADMIN_LOGIN_RATE_WINDOW == 15 * 60 * 1000
ADMIN_LOGIN_RATE_MAX == 5

None == "none"

SmallKeys == {"U1", "U2", "U3"}
EvictKeys == {"U1", "U2", "U3", "U4"}
ChatKeys == {"U1"}
LoginKeys == {"203.0.113.7"}

\* The addresses sign-in requests come from, the first of them watched, and
\* the addresses their x-forwarded-for headers name.
Addresses == {"203.0.113.7", "198.51.100.1"}
WatchedAddress == "203.0.113.7"
Forwarded == {"10.0.0.1"}
Keys == EvictKeys \cup ChatKeys \cup LoginKeys \cup Addresses \cup Forwarded
           \cup {"unknown"}

\* What chatUpstashLimiter.limit(key) can do: resolve with success true or
\* false, throw, or return a promise that rejects.
RemoteOutcomes == {"success", "limited", "throw", "reject"}

(***************************************************************************)
(* A limiter instance and its call site.  site "chat" is reached through   *)
(* checkChatRateLimit, site "login" calls the limiter directly.            *)
(***************************************************************************)
\* How far a run is explored: the attempts of the watched caller past the
\* limit and of every other caller in one window, and the clock advances.
Wide == [over |-> MaxOver, other |-> MaxOther, advance |-> MaxAdvance]
Narrow == [over |-> MaxOver - 1, other |-> MaxOther, advance |-> MaxAdvance - 1]
Tight == [over |-> MaxOver - 1, other |-> MaxOther - 1, advance |-> MaxAdvance - 1]

\* The limiters of the program, with the program's policies and cap.
ProgramConfigs ==
    {[site |-> "chat", windowMs |-> CHAT_RATE_WINDOW, maxRequests |-> CHAT_RATE_MAX,
      maxEntries |-> RATE_LIMIT_MAX_ENTRIES,
      callers |-> ChatKeys, upstash |-> u, limits |-> Wide] : u \in BOOLEAN}
    \cup
    {[site |-> "login", windowMs |-> ADMIN_LOGIN_RATE_WINDOW,
      maxRequests |-> ADMIN_LOGIN_RATE_MAX,
      maxEntries |-> RATE_LIMIT_MAX_ENTRIES,
      callers |-> LoginKeys, upstash |-> FALSE, limits |-> Wide]}

\* The chat limiter with a scaled-down policy and cap and three callers.
SmallConfigs ==
    {[site |-> "chat", windowMs |-> SmallWindow, maxRequests |-> SmallMax,
      maxEntries |-> MaxEntries,
      callers |-> SmallKeys, upstash |-> u, limits |-> Wide] : u \in BOOLEAN}

\* The same limiter with four callers and a cap one higher: a capacity
\* eviction then keeps more than one entry.
EvictConfigs ==
    {[site |-> "chat", windowMs |-> SmallWindow, maxRequests |-> SmallMax,
      maxEntries |-> MaxEntries + 1,
      callers |-> EvictKeys, upstash |-> FALSE, limits |-> Narrow],
     [site |-> "login", windowMs |-> SmallWindow, maxRequests |-> SmallMax,
      maxEntries |-> MaxEntries,
      callers |-> ChatKeys, upstash |-> FALSE, limits |-> Narrow]}

Configs == ProgramConfigs \cup SmallConfigs

VARIABLES
    site,               \* which call site owns the limiter
    windowMs,           \* createRateLimiter's windowMs
    maxRequests,        \* createRateLimiter's maxRequests
    maxEntries,         \* the cap the limiter compares store.size with
    callers,            \* the keys that send requests in this run
    limits,             \* how far this run is explored
    chatUpstashLimiter, \* TRUE iff the Upstash limiter was built at start
    store,              \* the limiter's Map, in insertion order
    now,                \* Date.now()
    lastKey,            \* key of the latest check (None before the first)
    lastResult,         \* what the latest check returned
    lastRaised,         \* TRUE iff the latest check threw instead
    lastPath,           \* "local", "remote" or "fallback" for the latest check
    lastFound,          \* what the latest local call found for its key
    remoteCalled,       \* TRUE once chatUpstashLimiter.limit was invoked
    hit,                \* a capacity eviction has removed the watched key's entry
    solo,               \* a limiter that receives only the watched key's calls
    ref,                \* a local-only limiter that receives every chat check
    track,              \* the watched key's calls since it last had no live entry
    burst,              \* admitted calls at the watched key's two latest instants
    tally,              \* the watched key's calls since its entry's windowStart
    env,                \* process.env: which of the secrets are set
    req,                \* the request the latest handler received
    res,                \* the status the latest handler answered with (0: none)
    sent,               \* the messages the latest handler sent to the completion API
    evaluated,          \* what the latest sign-in did with the credentials
    nextCalled,         \* TRUE iff the latest checkAdminAuth called next()
    min_auth_ts,        \* the setting the session reset writes (-1: never written)
    awaiting,           \* the chat check that awaits chatUpstashLimiter.limit
    checked,            \* the latest isValidImageUrl call and what it returned
    quota,              \* admitted sign-ins from the watched address in one window
    inflight,           \* the chat checks that run side by side, each at its await or idle
    sync                \* the useSync hook of one client and the user's blob on the server

\* lastKey, lastResult, lastPath and lastFound describe the check that has
\* just returned; they are cleared when time passes.  remoteCalled, hit,
\* solo, ref, track, burst and tally are history variables: no result reads
\* them.
config == <<site, windowMs, maxRequests, maxEntries, callers, limits,
            chatUpstashLimiter>>
vars == <<site, windowMs, maxRequests, maxEntries, callers, limits,
          chatUpstashLimiter,
          store, now, lastKey, lastResult, lastRaised, lastPath, lastFound,
          remoteCalled, hit, solo, ref, track, burst, tally,
          env, req, res, sent, evaluated, nextCalled, min_auth_ts, awaiting,
          checked, quota, inflight, sync>>

\* The state of the request handlers around the limiter.
handlers == <<env, req, res, sent, evaluated, nextCalled, min_auth_ts, awaiting,
              checked, quota, inflight, sync>>

(***************************************************************************)
(* The Map helpers.                                                        *)
(***************************************************************************)
\* Index of key in the store, 0 when the Map has no such key.
IndexOf(st, key) ==
    IF \E i \in 1..Len(st) : st[i].key = key
    THEN CHOOSE i \in 1..Len(st) : st[i].key = key
    ELSE 0

Has(st, key) == IndexOf(st, key) # 0

Get(st, key) == st[IndexOf(st, key)]

\* store.delete(k) for every k of a set.
DeleteAll(st, ks) == SelectSeq(st, LAMBDA e : e.key \notin ks)

\* An expiry test that is not strict: >= windowMs.
ExpiredGe(e, t, w) == t - e.windowStart >= w

\* now - entry.windowStart > windowMs
Expired(e, t, w) == t - e.windowStart > w

\* A sweep that deletes nothing.
SweepNone(st, t, w) == st

\* A sweep that compares with >= windowMs + 2: it is one millisecond late.
SweepLate(st, t, w) == SelectSeq(st, LAMBDA e : ~(t - e.windowStart > w + 1))

\* The first loop of checkRateLimit: delete every expired entry.
Sweep(st, t, w) == SelectSeq(st, LAMBDA e : ~Expired(e, t, w))

\* Array.prototype.sort with (a, b) => a.windowStart - b.windowStart: a
\* stable sort, ascending by windowStart.
RECURSIVE SortByWindowStart(_)
SortByWindowStart(st) ==
    IF Len(st) <= 1 THEN st
    ELSE LET m == CHOOSE i \in 1..Len(st) :
                    /\ \A j \in 1..Len(st) : st[i].windowStart <= st[j].windowStart
                    /\ \A j \in 1..(i - 1) : st[j].windowStart > st[i].windowStart
             rest == SubSeq(st, 1, m - 1) \o SubSeq(st, m + 1, Len(st))
         IN <<st[m]>> \o SortByWindowStart(rest)

\* The values i takes in: for (let i = 0; i < entries.length / 2; i++)
LoopIndices(n) == {i \in 0..n : 2 * i < n}

\* An eviction whose loop stops at i + 1 <= entries.length / 2: it deletes
\* the floor of half the entries.
EvictedKeysFloor(st) ==
    IF Len(st) > maxEntries
    THEN LET entries == SortByWindowStart(st)
         IN {entries[i + 1].key :
                i \in {j \in LoopIndices(Len(entries)) : 2 * (j + 1) <= Len(entries)}}
    ELSE {}

\* An eviction whose sort is descending (b - a): it deletes the newer half.
EvictedKeysNewest(st) ==
    IF Len(st) > maxEntries
    THEN LET entries == SortByWindowStart(st)
         IN {entries[Len(entries) - i].key :
                i \in {j \in LoopIndices(Len(entries)) : j < Len(entries)}}
    ELSE {}

\* The keys the eviction loop deletes: entries[i][0] for every such i.
EvictedKeys(st) ==
    IF Len(st) > maxEntries
    THEN LET entries == SortByWindowStart(st)
         IN {entries[i + 1].key : i \in {j \in LoopIndices(Len(entries)) : j < Len(entries)}}
    ELSE {}

\* entries[i][0] is a TypeError when entries[i] is undefined.
EvictRaises(st) ==
    /\ Len(st) > maxEntries
    /\ \E i \in LoopIndices(Len(st)) : i >= Len(st)

\* A limiter without the capacity eviction.
EvictNone(st) == st

Evict(st) == DeleteAll(st, EvictedKeys(st))

\* checkRateLimit with the limit test written >= instead of >.
checkRateLimitGe(st, key, t, w, m) ==
    LET swept == Sweep(st, t, w)
        kept == Evict(swept)
        i == IndexOf(kept, key)
    IN IF i = 0
       THEN [blocked |-> FALSE, raised |-> FALSE,
             store |-> Append(kept, [key |-> key, count |-> 1, windowStart |-> t])]
       ELSE [blocked |-> kept[i].count + 1 >= m, raised |-> FALSE,
             store |-> [kept EXCEPT ![i].count = @ + 1]]

\* checkRateLimit with the limit test written === maxRequests + 1.
checkRateLimitEq(st, key, t, w, m) ==
    LET swept == Sweep(st, t, w)
        kept == Evict(swept)
        i == IndexOf(kept, key)
    IN IF i = 0
       THEN [blocked |-> FALSE, raised |-> FALSE,
             store |-> Append(kept, [key |-> key, count |-> 1, windowStart |-> t])]
       ELSE [blocked |-> kept[i].count + 1 = m + 1, raised |-> FALSE,
             store |-> [kept EXCEPT ![i].count = @ + 1]]

\* checkRateLimit that counts every key on the oldest entry of the Map.
checkRateLimitShared(st, key, t, w, m) ==
    LET swept == Sweep(st, t, w)
        kept == Evict(swept)
        i == IF Len(kept) > 0 THEN 1 ELSE 0
    IN IF i = 0
       THEN [blocked |-> FALSE, raised |-> FALSE,
             store |-> Append(kept, [key |-> key, count |-> 1, windowStart |-> t])]
       ELSE [blocked |-> kept[i].count + 1 > m, raised |-> FALSE,
             store |-> [kept EXCEPT ![i].count = @ + 1]]

\* checkRateLimit that blocks on the count before the increment.
checkRateLimitLate(st, key, t, w, m) ==
    LET swept == Sweep(st, t, w)
        kept == Evict(swept)
        i == IndexOf(kept, key)
    IN IF i = 0
       THEN [blocked |-> FALSE, raised |-> FALSE,
             store |-> Append(kept, [key |-> key, count |-> 1, windowStart |-> t])]
       ELSE [blocked |-> kept[i].count > m, raised |-> FALSE,
             store |-> [kept EXCEPT ![i].count = @ + 1]]

\* checkRateLimit that restarts the window of a key it blocks.
checkRateLimitRestart(st, key, t, w, m) ==
    LET swept == Sweep(st, t, w)
        kept == Evict(swept)
        i == IndexOf(kept, key)
    IN IF i = 0
       THEN [blocked |-> FALSE, raised |-> FALSE,
             store |-> Append(kept, [key |-> key, count |-> 1, windowStart |-> t])]
       ELSE [blocked |-> kept[i].count + 1 > m, raised |-> FALSE,
             store |-> [kept EXCEPT ![i].count = @ + 1,
                                    ![i].windowStart =
                                        IF kept[i].count + 1 > m THEN t ELSE @]]

\* checkRateLimit whose count stops at maxRequests + 1.
checkRateLimitSaturating(st, key, t, w, m) ==
    LET swept == Sweep(st, t, w)
        kept == Evict(swept)
        i == IndexOf(kept, key)
    IN IF i = 0
       THEN [blocked |-> FALSE, raised |-> FALSE,
             store |-> Append(kept, [key |-> key, count |-> 1, windowStart |-> t])]
       ELSE [blocked |-> kept[i].count + 1 > m, raised |-> FALSE,
             store |-> [kept EXCEPT ![i].count = IF @ > m THEN @ ELSE @ + 1]]

\* One call of the closure createRateLimiter returns: the new Map, the
\* returned boolean, and whether the call threw instead of returning.
checkRateLimit(st, key, t, w, m) ==
    LET swept == Sweep(st, t, w)
        kept == Evict(swept)
        i == IndexOf(kept, key)
        raised == EvictRaises(swept)
    IN IF i = 0
       THEN [blocked |-> FALSE, raised |-> raised,
             store |-> Append(kept, [key |-> key, count |-> 1, windowStart |-> t])]
       ELSE IF Expired(kept[i], t, w)
       THEN [blocked |-> FALSE, raised |-> raised,
             store |-> [kept EXCEPT ![i] = [key |-> key, count |-> 1, windowStart |-> t]]]
       ELSE [blocked |-> kept[i].count + 1 > m, raised |-> raised,
             store |-> [kept EXCEPT ![i].count = @ + 1]]

\* checkChatRateLimit whose catch block admits the request.
checkChatRateLimitFailOpen(st, key, t, w, m, upstash, outcome) ==
    LET local == checkRateLimit(st, key, t, w, m)
    IN IF ~upstash
       THEN [blocked |-> local.blocked, store |-> local.store,
             path |-> "local", remote |-> FALSE, raised |-> local.raised]
       ELSE IF outcome \in {"success", "limited"}
       THEN [blocked |-> outcome = "limited", store |-> st,
             path |-> "remote", remote |-> TRUE, raised |-> FALSE]
       ELSE [blocked |-> FALSE, store |-> st,
             path |-> "fallback", remote |-> TRUE, raised |-> FALSE]

\* checkChatRateLimit without the test of chatUpstashLimiter: it builds and
\* asks the remote limiter whatever the configuration.
checkChatRateLimitAlwaysRemote(st, key, t, w, m, upstash, outcome) ==
    LET local == checkRateLimit(st, key, t, w, m)
    IN IF outcome \in {"success", "limited"}
       THEN [blocked |-> outcome = "limited", store |-> st,
             path |-> "remote", remote |-> TRUE, raised |-> FALSE]
       ELSE [blocked |-> local.blocked, store |-> local.store,
             path |-> "fallback", remote |-> TRUE, raised |-> local.raised]

\* checkChatRateLimit without try/catch: a failure of limit() leaves it.
checkChatRateLimitNoCatch(st, key, t, w, m, upstash, outcome) ==
    LET local == checkRateLimit(st, key, t, w, m)
    IN IF ~upstash
       THEN [blocked |-> local.blocked, store |-> local.store,
             path |-> "local", remote |-> FALSE, raised |-> local.raised]
       ELSE IF outcome \in {"success", "limited"}
       THEN [blocked |-> outcome = "limited", store |-> st,
             path |-> "remote", remote |-> TRUE, raised |-> FALSE]
       ELSE [blocked |-> FALSE, store |-> st,
             path |-> "fallback", remote |-> TRUE, raised |-> TRUE]

\* checkChatRateLimit that counts the call in the in-memory limiter as well
\* when the remote limiter answered.
checkChatRateLimitCountsBoth(st, key, t, w, m, upstash, outcome) ==
    LET local == checkRateLimit(st, key, t, w, m)
    IN IF ~upstash
       THEN [blocked |-> local.blocked, store |-> local.store,
             path |-> "local", remote |-> FALSE, raised |-> local.raised]
       ELSE IF outcome \in {"success", "limited"}
       THEN [blocked |-> outcome = "limited", store |-> local.store,
             path |-> "remote", remote |-> TRUE, raised |-> FALSE]
       ELSE [blocked |-> local.blocked, store |-> local.store,
             path |-> "fallback", remote |-> TRUE, raised |-> local.raised]

\* checkChatRateLimit: the Upstash limiter when it was built and answers,
\* the in-memory limiter otherwise.  raised is TRUE when an exception
\* leaves the function instead of a result.
checkChatRateLimitResult(st, key, t, w, m, upstash, outcome) ==
    LET local == checkRateLimit(st, key, t, w, m)
    IN IF ~upstash
       THEN [blocked |-> local.blocked, store |-> local.store,
             path |-> "local", remote |-> FALSE, raised |-> local.raised]
       ELSE IF outcome \in {"success", "limited"}
       THEN [blocked |-> outcome = "limited", store |-> st,
             path |-> "remote", remote |-> TRUE, raised |-> FALSE]
       ELSE [blocked |-> local.blocked, store |-> local.store,
             path |-> "fallback", remote |-> TRUE, raised |-> local.raised]

(***************************************************************************)
(* History of the calls, kept beside the program state.                    *)
(***************************************************************************)
\* The key whose calls the history follows; the code treats all keys alike.
Watched(cs) == IF "U1" \in cs THEN "U1" ELSE CHOOSE k \in cs : TRUE

NoFound == [kind |-> None, count |-> 0, evicted |-> {}, expired |-> {}]

\* What a local call for key at time t meets in the store: no entry, an
\* expired entry, an entry that this call's eviction deletes, or a live
\* one, with its count; the keys this call's eviction deletes and the keys
\* whose entries its sweep deletes.
FoundKind(st, key, t, w) ==
    IF ~Has(st, key) THEN "absent"
    ELSE IF Expired(Get(st, key), t, w) THEN "expired"
    ELSE IF key \in EvictedKeys(Sweep(st, t, w)) THEN "evicted"
    ELSE "live"

Found(st, key, t, w) ==
    [kind |-> FoundKind(st, key, t, w),
     count |-> IF Has(st, key) THEN Get(st, key).count ELSE 0,
     evicted |-> EvictedKeys(Sweep(st, t, w)),
     expired |-> {st[i].key : i \in {j \in 1..Len(st) : Expired(st[j], t, w)}}]

\* The store is above the cap when a call starts or when it returns.
Overflow(st, st2) ==
    Len(st) > maxEntries \/ Len(st2) > maxEntries

NoTrack == [key |-> None, start |-> 0, n |-> 0, adm |-> 0,
            over |-> FALSE, evicted |-> FALSE, prior |-> FALSE, blocked |-> FALSE]

\* The run that starts with a local call for key that finds no live entry:
\* n calls so far, adm of them admitted, blocked iff one returned true,
\* prior iff one before the latest did, over iff the store was above the
\* cap during the run, evicted iff a capacity eviction deleted key's entry.
TrackStart(st, key, t, r) ==
    [key |-> key, start |-> t, n |-> 1,
     adm |-> IF r.blocked THEN 0 ELSE 1,
     over |-> Overflow(st, r.store),
     evicted |-> FALSE, prior |-> FALSE, blocked |-> r.blocked]

\* The run after a further local call, for its key or for another key.
TrackStep(tr, st, key, t, w, r) ==
    IF tr.key = None THEN tr
    ELSE IF tr.key = key
    THEN [tr EXCEPT !.n = @ + 1,
                    !.adm = IF r.blocked THEN @ ELSE @ + 1,
                    !.prior = tr.blocked,
                    !.blocked = @ \/ r.blocked,
                    !.over = @ \/ Overflow(st, r.store),
                    !.evicted = @ \/ key \in EvictedKeys(Sweep(st, t, w))]
    ELSE [tr EXCEPT !.over = @ \/ Overflow(st, r.store),
                    !.evicted = @ \/ tr.key \in EvictedKeys(Sweep(st, t, w))]

\* The run is followed for windowMs from its first call.
TrackTick(tr, t, w) == IF tr.key # None /\ t - tr.start > w THEN NoTrack ELSE tr

NoBurst == [at |-> -1, adm |-> 0, prevAt |-> -1, prevAdm |-> 0]

\* The admitted calls of the watched key at its two latest call instants.
BurstStep(b, t, blocked) ==
    LET a == IF blocked THEN 0 ELSE 1
    IN IF b.at = t THEN [b EXCEPT !.adm = @ + a]
       ELSE [at |-> t, adm |-> a, prevAt |-> b.at, prevAdm |-> b.adm]

\* Instants further back than windowMs no longer share an interval of
\* length windowMs with a later call.
BurstTick(b, t, w) ==
    IF b.at # -1 /\ t - b.at > w THEN NoBurst
    ELSE IF b.prevAt # -1 /\ t - b.prevAt > w
    THEN [b EXCEPT !.prevAt = -1, !.prevAdm = 0]
    ELSE b

NoTally == [start |-> -1, n |-> 0, cut |-> FALSE, at |-> -1, here |-> 0]

\* The calls for the watched key counted from the windowStart of its entry:
\* start is the instant the entry was created at, n the number of local calls for the key at
\* instants from start on, here the number of them at the instant at of the
\* latest one; cut iff the entry was created at an instant at which the key
\* had already been called.
TallyStep(ta, t, f) ==
    LET earlier == IF ta.at = t THEN ta.here ELSE 0
    IN [start |-> IF f.kind = "live" THEN ta.start ELSE t,
        n |-> IF f.kind = "live" THEN ta.n + 1 ELSE earlier + 1,
        cut |-> IF f.kind = "live" THEN ta.cut ELSE earlier > 0,
        at |-> t,
        here |-> earlier + 1]

\* Once time has passed, no later call is at the instant of the latest one.
TallyTick(ta) == [ta EXCEPT !.at = -1, !.here = 0]

\* The reference limiter is dropped once the remote has answered a check.
NoRef == <<[key |-> None, count |-> 0, windowStart |-> 0]>>

\* The history after a local call for key that returned r.
LocalHistory(key, r) ==
    LET f == Found(store, key, now, windowMs)
        mine == key = Watched(callers)
    IN /\ lastFound' = f
       /\ hit' = (hit \/ Watched(callers) \in EvictedKeys(Sweep(store, now, windowMs)))
       /\ solo' = IF mine
                  THEN checkRateLimit(solo, key, now, windowMs, maxRequests).store
                  ELSE solo
       /\ track' = IF mine /\ f.kind \in {"absent", "expired"}
                   THEN TrackStart(store, key, now, r)
                   ELSE TrackStep(track, store, key, now, windowMs, r)
       /\ burst' = IF mine THEN BurstStep(burst, now, r.blocked) ELSE burst
       /\ tally' = IF mine THEN TallyStep(tally, now, f) ELSE tally

(***************************************************************************)
(* Guards that keep the exploration finite.                                *)
(***************************************************************************)
\* Number of clock advances that lead to time t (steps of 1 and of windowMs).
Elapsed(t, w) == (t \div w) + (t % w)

\* The attempts a caller makes in one window.
Attempts(key, cs, m) == IF key = Watched(cs) THEN m + limits.over ELSE limits.other

MayCall(st, key, t, w, cap) ==
    (Has(st, key) /\ ~Expired(Get(st, key), t, w)) => Get(st, key).count < cap

(***************************************************************************)
(* The request handlers before the first request.                          *)
(***************************************************************************)
NoReq == [route |-> None]
NoSent == <<>>
NoEvaluated == [hashRead |-> FALSE, compared |-> FALSE]
NoAwait == [key |-> None, answered |-> TRUE, will |-> None]
NoChecked == [done |-> FALSE, valid |-> FALSE, url |-> [type |-> "undefined"]]
NoQuota == [start |-> -1, admitted |-> 0]

\* The chat checks that can be in flight at once, none of them started:
\* will is what the remote call of a check meets, seen the Map as it was
\* when the check started, stale iff the Map had changed when it resumed.
Requests == 1..MaxInflight
NoInflight ==
    [r \in Requests |-> [pc |-> "idle", key |-> None, will |-> None,
                         seen |-> <<>>, stale |-> FALSE]]

\* A user's blob: the value of each of its keys, 0 for a key it lacks.
SyncKeys == {"gamification", "chatHistory"}
NoBlob == [k \in SyncKeys |-> 0]

\* The hook before it is mounted and the server before any blob is stored:
\* ref is userDataRef.current, down the state of the down-sync, fetched the
\* blob its GET was answered with, posts the POSTs the hook has sent, each
\* with its blob and whether the server has stored it, up the latest syncUp
\* with the blob the server held when it was called.
NoUp == [key |-> None, blob |-> NoBlob, before |-> NoBlob]
NoSync == [server |-> NoBlob, ref |-> NoBlob, down |-> "idle",
           fetched |-> NoBlob, posts |-> <<>>, up |-> NoUp]

Idle ==
    /\ req = NoReq
    /\ res = 0
    /\ sent = NoSent
    /\ evaluated = NoEvaluated
    /\ nextCalled = FALSE
    /\ min_auth_ts = -1
    /\ awaiting = NoAwait
    /\ quota = NoQuota
    /\ inflight = NoInflight
    /\ sync = NoSync

\* process.env with the three secrets set, and with none of them.
ProgramEnv == [OPENAI_API_KEY |-> TRUE, JWT_SECRET |-> "s1", ADMIN_PASSWORD |-> TRUE]
BareEnv == [OPENAI_API_KEY |-> FALSE, JWT_SECRET |-> "", ADMIN_PASSWORD |-> FALSE]

(***************************************************************************)
(* JavaScript values as the handlers see them: a record with the typeof    *)
(* tag (null and array apart) and the parts the code reads.                *)
(***************************************************************************)
Undefined == [type |-> "undefined"]
Null == [type |-> "null"]

\* A string of the given length; uploaded iff it contains ' [Image Uploaded]'.
Str(text, length) == [type |-> "string", text |-> text, length |-> length,
                      uploaded |-> FALSE]

\* Boolean(v) for the values a request body can hold.
Truthy(v) ==
    CASE v.type \in {"undefined", "null"} -> FALSE
      [] v.type = "string" -> v.length > 0
      [] v.type = "number" -> v.value # 0
      [] OTHER -> TRUE

(***************************************************************************)
(* Message validation of the chat handler.                                 *)
(***************************************************************************)
VALID_ROLES == {"user", "assistant", "system"}
MAX_MESSAGE_LENGTH == 4000
MAX_MESSAGES == 50

\* The loop's checks of one element: the error it answers, "" when none.
\* (!msg holds of null only, among the values JSON.parse yields in an array
\* that are objects; an array is an object without a role.)
MessageError(msg) ==
    IF msg.type # "object"
    THEN "Each message must be an object with role and content"
    ELSE IF msg.role.type # "string" \/ msg.role.value \notin VALID_ROLES
    THEN "Invalid message role"
    ELSE IF msg.content.type # "string"
    THEN "Message content must be a string"
    ELSE IF msg.content.length > MAX_MESSAGE_LENGTH
    THEN "Message too long"
    ELSE ""

\* A mapping of messagesArr without the filter.
UserMessagesUnfiltered(arr) ==
    [i \in 1..Len(arr) |-> [role |-> arr[i].role.value, content |-> arr[i].content]]

\* messagesArr.filter(user or assistant).map(m => ({role, content}))
UserMessages(arr) ==
    LET kept == SelectSeq(arr, LAMBDA m : m.role.value \in {"user", "assistant"})
    IN [i \in 1..Len(kept) |-> [role |-> kept[i].role.value,
                                content |-> kept[i].content]]

\* The validation without the test of userMessages.length.
ValidateMessagesUncounted(rawMessages) ==
    IF rawMessages.type \notin {"undefined", "array"}
    THEN [status |-> 400, error |-> "messages must be an array", userMessages |-> <<>>]
    ELSE LET messagesArr == IF rawMessages.type = "array" THEN rawMessages.items
                            ELSE <<>>
             bad == {i \in 1..Len(messagesArr) : MessageError(messagesArr[i]) # ""}
         IN IF bad # {}
            THEN [status |-> 400,
                  error |-> MessageError(messagesArr[CHOOSE i \in bad :
                                                        \A j \in bad : i <= j]),
                  userMessages |-> <<>>]
            ELSE [status |-> 0, error |-> "",
                  userMessages |-> UserMessages(messagesArr)]

\* Lines 605-637 of the handler: status 400 and the error, or status 0 and
\* the messages to forward.
ValidateMessages(rawMessages) ==
    IF rawMessages.type \notin {"undefined", "array"}
    THEN [status |-> 400, error |-> "messages must be an array", userMessages |-> <<>>]
    ELSE LET messagesArr == IF rawMessages.type = "array" THEN rawMessages.items
                            ELSE <<>>
             bad == {i \in 1..Len(messagesArr) : MessageError(messagesArr[i]) # ""}
         IN IF bad # {}
            THEN [status |-> 400,
                  error |-> MessageError(messagesArr[CHOOSE i \in bad :
                                                        \A j \in bad : i <= j]),
                  userMessages |-> <<>>]
            ELSE IF Len(UserMessages(messagesArr)) > MAX_MESSAGES
            THEN [status |-> 400, error |-> "Too many messages",
                  userMessages |-> <<>>]
            ELSE [status |-> 0, error |-> "",
                  userMessages |-> UserMessages(messagesArr)]

(***************************************************************************)
(* isValidImageUrl.  A URL string is kept as the parts new URL() reads:    *)
(* lead iff it starts with white space, the scheme as written ("" when it  *)
(* has none), the media type of a data: URL, wellformed iff new URL()      *)
(* accepts it, and the host as new URL() serialises it: an IPv4 address    *)
(* (octets), an IPv6 address in brackets (text) or a domain (labels).      *)
(***************************************************************************)
NoHost == [kind |-> "none", octets |-> <<>>, text |-> "", labels |-> <<>>]
IPv4(a, b, c, d) == [kind |-> "ipv4", octets |-> <<a, b, c, d>>, text |-> "",
                     labels |-> <<>>]
IPv6(text) == [kind |-> "ipv6", octets |-> <<>>, text |-> text, labels |-> <<>>]
Domain(labels) == [kind |-> "name", octets |-> <<>>, text |-> "", labels |-> labels]

Url(lead, scheme, media, wellformed, host) ==
    [type |-> "string", length |-> 1, lead |-> lead, scheme |-> scheme,
     media |-> media, wellformed |-> wellformed, host |-> host]

\* An IPv4 test whose 172 range stops at 172.30.
isPrivateHostnameNarrow(hostname) ==
    CASE hostname.kind = "ipv6" -> hostname.text \in {"::1", "0:0:0:0:0:0:0:1"}
      [] hostname.kind = "name" ->
            LET l == hostname.labels
            IN l = <<"localhost">> \/ (Len(l) > 1 /\ l[Len(l)] = "localhost")
      [] hostname.kind = "ipv4" ->
            LET a == hostname.octets[1]
                b == hostname.octets[2]
                c == hostname.octets[3]
                d == hostname.octets[4]
            IN \/ a = 0 /\ b = 0 /\ c = 0 /\ d = 0
               \/ a = 127
               \/ a = 10
               \/ a = 172 /\ b >= 16 /\ b < 31
               \/ a = 192 /\ b = 168
               \/ a = 169 /\ b = 254
      [] OTHER -> FALSE

\* isPrivateHostname: the brackets of an IPv6 host are removed first; the
\* IPv4 pattern matches four groups of digits only.
isPrivateHostname(hostname) ==
    CASE hostname.kind = "ipv6" -> hostname.text \in {"::1", "0:0:0:0:0:0:0:1"}
      [] hostname.kind = "name" ->
            LET l == hostname.labels
            IN l = <<"localhost">> \/ (Len(l) > 1 /\ l[Len(l)] = "localhost")
      [] hostname.kind = "ipv4" ->
            LET a == hostname.octets[1]
                b == hostname.octets[2]
                c == hostname.octets[3]
                d == hostname.octets[4]
            IN \/ a = 0 /\ b = 0 /\ c = 0 /\ d = 0
               \/ a = 127
               \/ a = 10
               \/ a = 172 /\ b >= 16 /\ b <= 31
               \/ a = 192 /\ b = 168
               \/ a = 169 /\ b = 254
      [] OTHER -> FALSE

\* url.startsWith('data:image/')
StartsWithDataImage(url) ==
    ~url.lead /\ url.scheme = "data" /\ url.media \in {"image/png", "image/svg+xml"}

\* new URL(url): the scheme is lower-cased; no scheme or a bad host throws.
ToLowerCase(scheme) ==
    CASE scheme = "HTTPS" -> "https"
      [] scheme = "Https" -> "https"
      [] scheme = "HTTP" -> "http"
      [] scheme = "DATA" -> "data"
      [] OTHER -> scheme

ParseUrl(url) ==
    IF url.scheme = "" \/ ~url.wellformed
    THEN [ok |-> FALSE, protocol |-> "", hostname |-> NoHost]
    ELSE [ok |-> TRUE, protocol |-> ToLowerCase(url.scheme),
          hostname |-> url.host]

isValidImageUrl(url) ==
    IF ~Truthy(url) \/ url.type # "string" THEN FALSE
    ELSE IF StartsWithDataImage(url) THEN TRUE
    ELSE LET parsed == ParseUrl(url)
         IN IF ~parsed.ok THEN FALSE
            ELSE IF parsed.protocol # "https" THEN FALSE
            ELSE IF isPrivateHostname(parsed.hostname) THEN FALSE
            ELSE TRUE

(***************************************************************************)
(* The chat handler around the limiter.                                    *)
(***************************************************************************)
NoBody == [type |-> "undefined", messages |-> Undefined, name |-> Undefined,
           lang |-> Undefined, image |-> Undefined]

\* lastMsg.content.replace(' [Image Uploaded]', ''): 17 characters go.
StripUploaded(content) ==
    IF content.uploaded
    THEN [content EXCEPT !.uploaded = FALSE, !.length = @ - 17]
    ELSE content

\* The image is attached to the last message when a user wrote it, and is a
\* message of its own otherwise.
WithImage(userMessages, image) ==
    LET n == Len(userMessages)
    IN IF n > 0 /\ userMessages[n].role = "user"
       THEN [userMessages EXCEPT ![n].content =
                [type |-> "parts", text |-> StripUploaded(@), image |-> image]]
       ELSE Append(userMessages,
                   [role |-> "user",
                    content |-> [type |-> "parts", text |-> Undefined,
                                 image |-> image]])

\* chatMessages: the two system messages, the introduction when a name is
\* given, and the user's messages.
ChatMessages(body, userMessages) ==
    LET language == IF body.lang.type = "string" /\ body.lang.text = "en"
                    THEN "en" ELSE "nl"
        intro == IF Truthy(body.name)
                 THEN <<[role |-> "user", content |-> [type |-> "intro",
                                                       name |-> body.name]]>>
                 ELSE <<>>
    IN <<[role |-> "system", content |-> [type |-> "SYSTEM_PROMPT"]],
         [role |-> "system", content |-> [type |-> "LANGUAGE_INSTRUCTIONS",
                                          lang |-> language]]>>
       \o intro \o userMessages

\* The exits of a handler that validates the messages and the image before
\* it asks the limiter.
chatBeforeValidated(rq, e) ==
    IF ~e.OPENAI_API_KEY THEN 500
    ELSE IF rq.userId = None THEN 401
    ELSE IF rq.body.type = "undefined" THEN 400
    ELSE IF ValidateMessages(rq.body.messages).status # 0 THEN 400
    ELSE IF Truthy(rq.body.image) /\ ~isValidImageUrl(rq.body.image) THEN 400
    ELSE 0

\* The exits of the handler before it asks the limiter: the status, or 0.
chatBefore(rq, e) ==
    IF ~e.OPENAI_API_KEY THEN 500
    ELSE IF rq.userId = None THEN 401
    ELSE IF rq.body.type = "undefined" THEN 400
    ELSE 0

\* A handler that asks the limiter after it has called the completion API.
chatRespondLate(rq, blocked, raised, upstream) ==
    IF raised THEN [status |-> 500, sent |-> NoSent]
    ELSE LET v == ValidateMessages(rq.body.messages)
             image == rq.body.image
         IN IF v.status # 0 THEN [status |-> 400, sent |-> NoSent]
            ELSE IF Truthy(image) /\ ~isValidImageUrl(image)
            THEN [status |-> 400, sent |-> NoSent]
            ELSE [status |-> IF blocked THEN 429
                             ELSE IF upstream = "ok" THEN 200 ELSE 500,
                  sent |-> ChatMessages(rq.body,
                              IF Truthy(image)
                              THEN WithImage(v.userMessages, image)
                              ELSE v.userMessages)]

\* The handler from the limiter's verdict on: the status it answers and the
\* messages it has sent to the completion API (NoSent: no call).  upstream
\* is what the call meets: "ok", an error status, or a network failure.
chatRespond(rq, blocked, raised, upstream) ==
    IF raised THEN [status |-> 500, sent |-> NoSent]
    ELSE IF blocked THEN [status |-> 429, sent |-> NoSent]
    ELSE LET v == ValidateMessages(rq.body.messages)
             image == rq.body.image
         IN IF v.status # 0 THEN [status |-> 400, sent |-> NoSent]
            ELSE IF Truthy(image) /\ ~isValidImageUrl(image)
            THEN [status |-> 400, sent |-> NoSent]
            ELSE [status |-> IF upstream = "ok" THEN 200 ELSE 500,
                  sent |-> ChatMessages(rq.body,
                              IF Truthy(image)
                              THEN WithImage(v.userMessages, image)
                              ELSE v.userMessages)]

(***************************************************************************)
(* The admin sign-in handler and checkAdminAuth.                           *)
(***************************************************************************)
\* The header x-forwarded-for as split(',') cuts it: a sequence of parts,
\* each the text between its blanks.  An empty header is one empty part.
Header(parts) == [type |-> "string", parts |-> parts]

\* req.headers['x-forwarded-for']?.split(',')[0]?.trim() || req.ip || 'unknown'
ClientIp(xff, ip) ==
    LET first == IF xff.type = "undefined" THEN "" ELSE xff.parts[1].text
    IN IF first # "" THEN first
       ELSE IF ip # "" THEN ip
       ELSE "unknown"

\* A handler that reads and compares before it asks the limiter.
loginRespondLate(rq, blocked, e, hash) ==
    IF rq.password = ""
    THEN [status |-> IF blocked THEN 429 ELSE 400, evaluated |-> NoEvaluated]
    ELSE IF ~e.ADMIN_PASSWORD \/ hash = "throw"
    THEN [status |-> IF blocked THEN 429 ELSE 500,
          evaluated |-> [hashRead |-> TRUE, compared |-> FALSE]]
    ELSE [status |-> IF blocked THEN 429
                     ELSE IF rq.password # "right" THEN 401
                     ELSE IF e.JWT_SECRET = "" THEN 500 ELSE 200,
          evaluated |-> [hashRead |-> TRUE, compared |-> TRUE]]

\* The sign-in handler from the limiter's verdict on: the status, and
\* whether it read the stored hash and compared the password.  hash is
\* what reading the hash meets: "ok" or "throw".
loginRespond(rq, blocked, e, hash) ==
    IF blocked THEN [status |-> 429, evaluated |-> NoEvaluated]
    ELSE IF rq.password = "" THEN [status |-> 400, evaluated |-> NoEvaluated]
    ELSE IF ~e.ADMIN_PASSWORD \/ hash = "throw"
    THEN [status |-> 500, evaluated |-> [hashRead |-> TRUE, compared |-> FALSE]]
    ELSE [status |-> IF rq.password # "right" THEN 401
                     ELSE IF e.JWT_SECRET = "" THEN 500 ELSE 200,
          evaluated |-> [hashRead |-> TRUE, compared |-> TRUE]]

\* A token: form "jwt" when it has the three parts of a JWT, the payload,
\* the payload its signature was made over, the key that signed it, and exp
\* in seconds (-1: none).
Token(form, payload, signed, key, exp) ==
    [form |-> form, payload |-> payload, signed |-> signed, key |-> key,
     exp |-> exp]

\* The header Authorization: the text up to and with the first blank, and
\* the token after it.
Authorization(scheme, token) == [type |-> "string", scheme |-> scheme, token |-> token]

\* jwt.verify(token, getJwtSecret()): TRUE when it returns, FALSE when it or
\* getJwtSecret throws.
verifyToken(token, secret, t) ==
    /\ secret # ""
    /\ token.form = "jwt"
    /\ token.key = secret
    /\ token.signed = token.payload
    /\ (token.exp = -1 \/ t \div 1000 < token.exp)

\* checkAdminAuth without the test of the scheme.
checkAdminAuthAnyScheme(authHeader, secret, t) ==
    IF authHeader.type = "undefined"
    THEN [status |-> 401, next |-> FALSE]
    ELSE IF verifyToken(authHeader.token, secret, t)
    THEN [status |-> 0, next |-> TRUE]
    ELSE [status |-> 401, next |-> FALSE]

\* checkAdminAuth: the status it answers (0: none) and whether it calls
\* next().
checkAdminAuth(authHeader, secret, t) ==
    IF authHeader.type = "undefined" \/ authHeader.scheme # "Bearer "
    THEN [status |-> 401, next |-> FALSE]
    ELSE IF verifyToken(authHeader.token, secret, t)
    THEN [status |-> 0, next |-> TRUE]
    ELSE [status |-> 401, next |-> FALSE]

(***************************************************************************)
(* Initial state: the process has just started.                            *)
(***************************************************************************)
\* The process started with one of the limiters cs and one of the
\* environments es; inputs are the arguments an isValidImageUrl call gets.
Boot(cs, es, inputs) ==
    /\ \E c \in cs :
        /\ site = c.site
        /\ windowMs = c.windowMs
        /\ maxRequests = c.maxRequests
        /\ maxEntries = c.maxEntries
        /\ callers = c.callers
        /\ limits = c.limits
        /\ chatUpstashLimiter = c.upstash
    /\ store = <<>>
    /\ now = 0
    /\ lastKey = None
    /\ lastResult = FALSE
    /\ lastRaised = FALSE
    /\ lastPath = None
    /\ lastFound = NoFound
    /\ remoteCalled = FALSE
    /\ hit = FALSE
    /\ solo = <<>>
    /\ ref = <<>>
    /\ track = NoTrack
    /\ burst = NoBurst
    /\ tally = NoTally
    /\ env \in es
    /\ checked \in inputs
    /\ Idle

\* The process with every secret of its environment set.
Start(cs) == Boot(cs, {ProgramEnv}, {NoChecked})

(***************************************************************************)
(* Actions.                                                                *)
(***************************************************************************)
\* Time passes.
Tick(d) ==
    /\ Elapsed(now + d, windowMs) <= limits.advance
    /\ now' = now + d
    /\ lastKey' = None
    /\ lastResult' = FALSE
    /\ lastRaised' = FALSE
    /\ lastPath' = None
    /\ lastFound' = NoFound
    /\ track' = TrackTick(track, now', windowMs)
    /\ burst' = BurstTick(burst, now', windowMs)
    /\ tally' = TallyTick(tally)
    /\ UNCHANGED <<config, store, remoteCalled, hit, solo, ref, handlers>>

\* checkAdminLoginRateLimit(clientIp): the call with what it records.
checkAdminLoginRateLimit(key) ==
    /\ site = "login"
    /\ MayCall(store, key, now, windowMs, Attempts(key, callers, maxRequests))
    /\ MayCall(solo, key, now, windowMs, Attempts(key, callers, maxRequests))
    /\ \E r \in {checkRateLimit(store, key, now, windowMs, maxRequests)} :
          /\ store' = r.store
          /\ lastResult' = r.blocked
          /\ lastRaised' = r.raised
          /\ LocalHistory(key, r)
    /\ lastKey' = key
    /\ lastPath' = "local"
    /\ UNCHANGED <<config, now, remoteCalled, ref>>

\* A direct call of a limiter: checkAdminLoginRateLimit(clientIp).
CheckLogin(key) ==
    /\ checkAdminLoginRateLimit(key)
    /\ UNCHANGED handlers

\* checkChatRateLimit(key) with the outcome its remote call meets, and what
\* the call records.
checkChatRateLimit(key, outcome) ==
    /\ site = "chat"
    /\ MayCall(store, key, now, windowMs, Attempts(key, callers, maxRequests))
    /\ MayCall(solo, key, now, windowMs, Attempts(key, callers, maxRequests))
    /\ \E r \in {checkChatRateLimitResult(store, key, now, windowMs, maxRequests,
                                           chatUpstashLimiter, outcome)} :
          /\ store' = r.store
          /\ lastResult' = r.blocked
          /\ lastRaised' = r.raised
          /\ lastPath' = r.path
          /\ remoteCalled' = (remoteCalled \/ r.remote)
          /\ IF r.path = "remote"
             THEN /\ lastFound' = NoFound
                  /\ ref' = NoRef
                  /\ UNCHANGED <<hit, solo, track, burst, tally>>
             ELSE /\ LocalHistory(key, r)
                  /\ ref' = IF ref = NoRef THEN NoRef
                            ELSE checkRateLimit(ref, key, now, windowMs,
                                                maxRequests).store
    /\ lastKey' = key
    /\ UNCHANGED <<config, now>>

\* await checkChatRateLimit(userId)
CheckChat(key, outcome) ==
    /\ checkChatRateLimit(key, outcome)
    /\ UNCHANGED handlers

Init == Start(Configs)

\* The process with the program's own policies and cap only.
InitProgram == Start(ProgramConfigs)

\* The process with the four-caller limiter.
InitEvict == Start(EvictConfigs)

Next ==
    \/ \E d \in {1, windowMs} : Tick(d)
    \/ \E key \in callers : CheckLogin(key)
    \/ \E key \in callers, outcome \in RemoteOutcomes : CheckChat(key, outcome)

Spec == Init /\ [][Next]_vars

SpecProgram == InitProgram /\ [][Next]_vars

SpecEvict == InitEvict /\ [][Next]_vars

\* Two callers more than the cap: without the eviction the Map would grow
\* to MAX_ENTRIES + 2 entries.
CrowdConfigs ==
    {[site |-> "chat", windowMs |-> SmallWindow, maxRequests |-> SmallMax,
      maxEntries |-> MaxEntries,
      callers |-> EvictKeys, upstash |-> FALSE, limits |-> Tight]}

InitCrowd == Start(CrowdConfigs)

\* No remote limiter was built: no call of limit(), so no outcome of it.
NextCrowd ==
    \/ \E d \in {1, windowMs} : Tick(d)
    \/ \E key \in callers : CheckChat(key, None)

SpecCrowd == InitCrowd /\ [][NextCrowd]_vars

(***************************************************************************)
(* The server: the handlers of /api/chat, /api/admin/login and             *)
(* /api/admin/users/reset around one limiter.                              *)
(***************************************************************************)
\* A handler that makes no limiter call.
NoCheck ==
    /\ lastKey' = None
    /\ lastResult' = FALSE
    /\ lastRaised' = FALSE
    /\ lastPath' = None
    /\ lastFound' = NoFound
    /\ UNCHANGED <<config, now, store, remoteCalled, hit, solo, ref, track,
                   burst, tally>>

\* The outcomes of limit() a chat check can meet: none without the limiter.
ChatOutcomes == IF chatUpstashLimiter THEN RemoteOutcomes ELSE {None}

\* What the call of the completion API meets.
Upstreams == {"ok", "error", "throw"}

\* app.post('/api/chat'): the whole handler for request rq.
ChatRequest(rq, outcome, upstream) ==
    /\ site = "chat"
    /\ req' = rq
    /\ IF chatBefore(rq, env) # 0
       THEN /\ res' = chatBefore(rq, env)
            /\ sent' = NoSent
            /\ NoCheck
       ELSE /\ checkChatRateLimit(rq.userId, outcome)
            /\ \E r \in {chatRespond(rq, lastResult', lastRaised', upstream)} :
                  /\ res' = r.status
                  /\ sent' = r.sent
    /\ UNCHANGED <<env, evaluated, nextCalled, min_auth_ts, awaiting, checked, quota, inflight, sync>>

\* The admitted sign-ins from the watched address within windowMs of the
\* first of them.
QuotaStep(q, rq, t, w, blocked) ==
    IF rq.ip # WatchedAddress \/ blocked THEN q
    ELSE IF q.start = -1 \/ t - q.start > w THEN [start |-> t, admitted |-> 1]
    ELSE [q EXCEPT !.admitted = @ + 1]

\* A sign-in handler that looks for the password before it asks the limiter:
\* a request without one is answered 400 and not counted.
LoginRequestPasswordFirst(rq, hash) ==
    /\ site = "login"
    /\ req' = rq
    /\ IF rq.password = ""
       THEN /\ res' = 400
            /\ evaluated' = NoEvaluated
            /\ quota' = quota
            /\ NoCheck
       ELSE /\ checkAdminLoginRateLimit(ClientIp(rq.xff, rq.ip))
            /\ \E r \in {loginRespond(rq, lastResult', env, hash)} :
                  /\ res' = r.status
                  /\ evaluated' = r.evaluated
            /\ quota' = QuotaStep(quota, rq, now, windowMs, lastResult')
    /\ UNCHANGED <<env, sent, nextCalled, min_auth_ts, awaiting, checked, inflight,
                   sync>>

\* app.post('/api/admin/login'): the whole handler for request rq.
LoginRequest(rq, hash) ==
    /\ site = "login"
    /\ req' = rq
    /\ checkAdminLoginRateLimit(ClientIp(rq.xff, rq.ip))
    /\ \E r \in {loginRespond(rq, lastResult', env, hash)} :
          /\ res' = r.status
          /\ evaluated' = r.evaluated
    /\ quota' = QuotaStep(quota, rq, now, windowMs, lastResult')
    /\ UNCHANGED <<env, sent, nextCalled, min_auth_ts, awaiting, checked, inflight,
                   sync>>

\* A reset that also empties the limiter's Map.
AdminResetClears(rq, outcome) ==
    /\ req' = rq
    /\ \E a \in {checkAdminAuth(rq.authorization, env.JWT_SECRET, now)} :
          /\ nextCalled' = a.next
          /\ res' = IF ~a.next THEN a.status
                    ELSE IF outcome = "ok" THEN 200 ELSE 500
          /\ min_auth_ts' = IF a.next /\ outcome = "ok" THEN now ELSE min_auth_ts
    /\ store' = <<>>
    /\ lastKey' = None
    /\ lastResult' = FALSE
    /\ lastRaised' = FALSE
    /\ lastPath' = None
    /\ lastFound' = NoFound
    /\ UNCHANGED <<config, now, remoteCalled, hit, solo, ref, track, burst, tally>>
    /\ UNCHANGED <<env, sent, evaluated, awaiting, checked, quota, inflight, sync>>

\* app.post('/api/admin/users/reset', checkAdminAuth, ...): the middleware
\* and, when it calls next(), the handler; outcome is what updateSetting
\* meets: "ok" or "throw".
AdminReset(rq, outcome) ==
    /\ req' = rq
    /\ \E a \in {checkAdminAuth(rq.authorization, env.JWT_SECRET, now)} :
          /\ nextCalled' = a.next
          /\ res' = IF ~a.next THEN a.status
                    ELSE IF outcome = "ok" THEN 200 ELSE 500
          /\ min_auth_ts' = IF a.next /\ outcome = "ok" THEN now ELSE min_auth_ts
    /\ NoCheck
    /\ UNCHANGED <<env, sent, evaluated, awaiting, checked, quota, inflight, sync>>

\* The requests of the server run.
Msg(role, content) ==
    [type |-> "object", role |-> [type |-> "string", value |-> role],
     content |-> content]
Array(items) == [type |-> "array", items |-> items]
Body(messages, name, lang, image) ==
    [type |-> "object", messages |-> messages, name |-> name, lang |-> lang,
     image |-> image]

ServerBodies ==
    {NoBody,
     Body(Array(<<Msg("user", Str("hi", 2))>>), Undefined, Undefined, Undefined),
     Body(Null, Undefined, Undefined, Undefined)}

ServerChatRequests ==
    {[route |-> "chat", userId |-> u, body |-> b] :
        u \in callers \cup {None}, b \in ServerBodies}

Part(lead, text) == [lead |-> lead, text |-> text]

ServerHeaders ==
    {Undefined,
     Header(<<Part(1, "")>>),
     Header(<<Part(0, "10.0.0.1"), Part(1, "203.0.113.7")>>)}

\* The sign-in requests of a run: those that its callers send and that
\* name, if any, one of its callers.
ServerLoginRequests ==
    {[route |-> "login", ip |-> a, xff |-> h, password |-> pw] :
        a \in Addresses \cap callers,
        h \in {x \in ServerHeaders :
                 x.type = "undefined" \/ x.parts[1].text \in callers \cup {""}},
        pw \in {"", "right", "wrong"}}

GoodToken == Token("jwt", "admin", "admin", "s1", 86400)
ForgedToken == Token("jwt", "admin", "admin", "s2", 86400)

ServerResetRequests ==
    {[route |-> "reset", authorization |-> h] :
        h \in {Undefined, Authorization("Bearer ", GoodToken),
               Authorization("Bearer ", ForgedToken)}}

\* The limiters of the server run: scaled down, the chat one with the
\* remote limiter built.
ServerConfigs ==
    {[site |-> "chat", windowMs |-> SmallWindow, maxRequests |-> SmallMax,
      maxEntries |-> MaxEntries,
      callers |-> {"U1", "U2"}, upstash |-> TRUE, limits |-> Narrow],
     [site |-> "login", windowMs |-> SmallWindow, maxRequests |-> SmallMax,
      maxEntries |-> MaxEntries,
      callers |-> Addresses \cup Forwarded, upstash |-> FALSE, limits |-> Tight],
     [site |-> "login", windowMs |-> ADMIN_LOGIN_RATE_WINDOW,
      maxRequests |-> ADMIN_LOGIN_RATE_MAX,
      maxEntries |-> RATE_LIMIT_MAX_ENTRIES,
      callers |-> LoginKeys, upstash |-> FALSE, limits |-> Tight]}

InitServer == Boot(ServerConfigs, {ProgramEnv, BareEnv}, {NoChecked})

NextServer ==
    \/ \E d \in {1, windowMs} : Tick(d)
    \/ \E rq \in ServerChatRequests, outcome \in ChatOutcomes, upstream \in Upstreams :
          ChatRequest(rq, outcome, upstream)
    \/ \E rq \in ServerLoginRequests, hash \in {"ok", "throw"} : LoginRequest(rq, hash)
    \/ \E rq \in ServerResetRequests, outcome \in {"ok", "throw"} : AdminReset(rq, outcome)

SpecServer == InitServer /\ [][NextServer]_vars

(***************************************************************************)
(* The chat rate-limit check with its await: the call of limit() and the   *)
(* return of checkChatRateLimit are two steps, and time passes in between. *)
(***************************************************************************)
\* What limit() does when the backend sends no answer.  The code passes no
\* timeout to Ratelimit and sets no timer around the await, so this is what
\* the library and the transport do: the promise stays pending, the
\* library's own timer resolves it with success true, or the transport
\* gives up and the promise rejects.
Unanswered == {"pending", "timeout", "reject"}

\* What the await yields for each settled promise.
Settled(will) == IF will = "timeout" THEN "success" ELSE will

\* checkChatRateLimit(key) up to its await: without the remote limiter it
\* returns inMemoryChatLimiter(key) at once.
ChatBegin(key, answered, will) ==
    /\ site = "chat"
    /\ awaiting.key = None
    /\ MayCall(store, key, now, windowMs, Attempts(key, callers, maxRequests))
    /\ MayCall(solo, key, now, windowMs, Attempts(key, callers, maxRequests))
    /\ IF ~chatUpstashLimiter
       THEN /\ checkChatRateLimit(key, None)
            /\ awaiting' = NoAwait
       ELSE /\ will \in (IF answered THEN RemoteOutcomes ELSE Unanswered)
            /\ awaiting' = [key |-> key, answered |-> answered, will |-> will]
            /\ NoCheck
    /\ UNCHANGED <<env, req, res, sent, evaluated, nextCalled, min_auth_ts,
                   checked, quota, inflight, sync>>

\* The promise of limit() settles and checkChatRateLimit returns.
ChatSettle ==
    /\ awaiting.key # None
    /\ awaiting.will # "pending"
    /\ checkChatRateLimit(awaiting.key, Settled(awaiting.will))
    /\ awaiting' = [awaiting EXCEPT !.key = None]
    /\ UNCHANGED <<env, req, res, sent, evaluated, nextCalled, min_auth_ts,
                   checked, quota, inflight, sync>>

\* The chat limiter scaled down, with and without the remote limiter.
AwaitConfigs ==
    {[c EXCEPT !.upstash = u] :
        c \in {x \in ServerConfigs : x.site = "chat"}, u \in BOOLEAN}

InitAwait == Boot(AwaitConfigs, {ProgramEnv}, {NoChecked})

NextAwait ==
    \/ \E d \in {1, windowMs} : Tick(d)
    \/ \E key \in callers, answered \in BOOLEAN,
          will \in RemoteOutcomes \cup Unanswered : ChatBegin(key, answered, will)
    \/ ChatSettle

\* A promise that settles is resumed: the event loop runs the continuation.
SpecAwait == InitAwait /\ [][NextAwait]_vars /\ WF_vars(ChatSettle)

(***************************************************************************)
(* The chat handler on request bodies of every shape: what the validation  *)
(* of messages lets through.                                               *)
(***************************************************************************)
\* An element of messages that is an object without a string role: role is
\* what msg.role reads.
Obj(role, content) == [type |-> "object", role |-> role, content |-> content]

\* The elements the arrays are built from: values that are no objects, an
\* array and an empty object (objects without role), the three roles with
\* content at and around the length limit, roles outside the set, and
\* content that is not a string.
ValidationElements ==
    {Null, Str("x", 1), [type |-> "number", num |-> 1],
     Obj(Undefined, Undefined),
     Obj([type |-> "number"], Str("a", 1)),
     Msg("user", Str("a", 1)),
     Msg("assistant", Str("b", MAX_MESSAGE_LENGTH)),
     Msg("system", Str("c", MAX_MESSAGE_LENGTH - 1)),
     Msg("user", Str("d", MAX_MESSAGE_LENGTH + 1)),
     Msg("system", Str("e", MAX_MESSAGE_LENGTH + 1)),
     Msg("admin", Str("a", 1)),
     Msg("User", Str("a", 1)),
     Msg("user", Str("", 0)),
     Msg("user", [type |-> "number", num |-> 1]),
     Msg("assistant", Null),
     Msg("user", Undefined)}

\* The elements of the arrays of two: the order of two messages, a system
\* message among them, and which of two unsound elements is reported.
PairElements ==
    {Null,
     Msg("user", Str("a", 1)),
     Msg("assistant", Str("b", MAX_MESSAGE_LENGTH)),
     Msg("system", Str("c", MAX_MESSAGE_LENGTH - 1)),
     Msg("user", Str("d", MAX_MESSAGE_LENGTH + 1)),
     Msg("admin", Str("a", 1))}

\* n messages of users and assistants in turn, each of another length.
Turns(n) ==
    [i \in 1..n |-> Msg(IF i % 2 = 1 THEN "user" ELSE "assistant", Str("t", i))]

\* Arrays around the limit of MAX_MESSAGES: at it, past it, with system
\* messages among them, and with an element that fails the loop.
LongArrays ==
    {Array(Turns(MAX_MESSAGES - 1)),
     Array(Turns(MAX_MESSAGES)),
     Array(Turns(MAX_MESSAGES + 1)),
     Array(<<Msg("system", Str("s", 1))>> \o Turns(MAX_MESSAGES)),
     Array(Turns(MAX_MESSAGES) \o <<Msg("system", Str("s", 1))>>),
     Array(<<Msg("system", Str("s", 1))>> \o Turns(MAX_MESSAGES + 1)),
     Array([i \in 1..(MAX_MESSAGES + 1) |-> Msg("system", Str("s", i))]),
     Array(Turns(MAX_MESSAGES) \o <<Msg("user", Str("d", MAX_MESSAGE_LENGTH + 1))>>),
     Array(Turns(MAX_MESSAGES + 1) \o <<Null>>)}

ValidationMessages ==
    {Undefined, Null, Str("hello", 5), [type |-> "number", num |-> 5],
     [type |-> "object"], Array(<<>>)}
    \cup {Array(<<e>>) : e \in ValidationElements}
    \cup {Array(<<e, f>>) : e, f \in PairElements}
    \cup LongArrays

ValidationRequests ==
    {[route |-> "chat", userId |-> u, body |-> Body(m, Undefined, Undefined, Undefined)] :
        u \in callers, m \in ValidationMessages}

\* One signed-in user and the in-memory limiter, scaled down.
ValidationConfigs ==
    {[site |-> "chat", windowMs |-> SmallWindow, maxRequests |-> SmallMax,
      maxEntries |-> MaxEntries,
      callers |-> ChatKeys, upstash |-> FALSE, limits |-> Tight]}

InitValidation == Boot(ValidationConfigs, {ProgramEnv}, {NoChecked})

NextValidation ==
    \/ \E d \in {1, windowMs} : Tick(d)
    \/ \E rq \in ValidationRequests, outcome \in ChatOutcomes, upstream \in Upstreams :
          ChatRequest(rq, outcome, upstream)

SpecValidation == InitValidation /\ [][NextValidation]_vars

(***************************************************************************)
(* checkAdminAuth in front of a route, on headers and tokens of every      *)
(* shape, while the clock runs past the tokens' expiry.                    *)
(***************************************************************************)
\* checkAdminAuth(req, res, next): res is the status the middleware itself
\* answers (0: none); what the route behind next() answers is not part of
\* it.  The request keeps the time it arrived at.
AuthRequest(rq) ==
    /\ req' = [rq EXCEPT !.at = now]
    /\ \E a \in {checkAdminAuth(rq.authorization, env.JWT_SECRET, now)} :
          /\ nextCalled' = a.next
          /\ res' = a.status
    /\ NoCheck
    /\ UNCHANGED <<env, sent, evaluated, min_auth_ts, awaiting, checked, quota, inflight, sync>>

\* exp claims around the seconds the clock of the run reaches, and none.
AuthExpiries ==
    {-1, 0, ADMIN_LOGIN_RATE_WINDOW \div 1000, (ADMIN_LOGIN_RATE_WINDOW \div 1000) + 1,
     86400}

\* Tokens: signed with the secret, with another one or with the empty key,
\* with the payload that was signed or another one, and text that is no JWT.
AuthTokens ==
    {Token("jwt", pl, sg, k, e) :
        pl \in {"admin", "user"}, sg \in {"admin", "user"},
        k \in {"s1", "s2", ""}, e \in AuthExpiries}
    \cup {Token("text", "", "", "", -1), Token("empty", "", "", "", -1)}

\* The header absent, empty, 'Bearer' alone, and four schemes with a token.
AuthHeaders ==
    {Undefined,
     Authorization("", Token("empty", "", "", "", -1)),
     Authorization("Bearer", Token("empty", "", "", "", -1))}
    \cup {Authorization(sc, tk) :
             sc \in {"Bearer ", "bearer ", "Basic ", "Token "}, tk \in AuthTokens}

AuthRequests ==
    {[route |-> "auth", authorization |-> h, at |-> 0] : h \in AuthHeaders}

\* The sign-in limiter of the program stands beside the middleware; its
\* window sets the pace of the clock.
AuthConfigs == {c \in ProgramConfigs : c.site = "login"}

InitAuth == Boot(AuthConfigs, {ProgramEnv, BareEnv}, {NoChecked})

NextAuth ==
    \/ \E d \in {1, windowMs} : Tick(d)
    \/ \E rq \in AuthRequests : AuthRequest(rq)

SpecAuth == InitAuth /\ [][NextAuth]_vars

(***************************************************************************)
(* isValidImageUrl on one argument drawn when the run starts.              *)
(***************************************************************************)
\* isValidImageUrl(url) for the argument of the run.
CheckImage ==
    /\ ~checked.done
    /\ checked' = [checked EXCEPT !.done = TRUE,
                                  !.valid = isValidImageUrl(checked.url)]
    /\ NoCheck
    /\ UNCHANGED <<env, req, res, sent, evaluated, nextCalled, min_auth_ts,
                   awaiting, quota, inflight, sync>>

\* The empty string.
EmptyString == [Url(FALSE, "", "", FALSE, NoHost) EXCEPT !.length = 0]

\* Arguments that are no strings.
ImageNonStrings ==
    {Undefined, Null, [type |-> "number", value |-> 0],
     [type |-> "number", value |-> 5], [type |-> "boolean"], [type |-> "object"]}

\* data: URLs of images and of other media, as written and with a blank or
\* capitals in front.
ImageDataUrls ==
    {Url(lead, sc, media, TRUE, NoHost) :
        lead \in BOOLEAN, sc \in {"data", "DATA"},
        media \in {"image/png", "image/svg+xml", "text/html", "application/pdf"}}

\* IPv4 hosts at and beside the borders of the ranges the code names.
ImageIPv4 ==
    {IPv4(a, b, c, d) :
        a \in {0, 9, 10, 11, 126, 127, 128, 169, 170, 171, 172, 173, 192, 193, 8},
        b \in {0, 15, 16, 31, 32, 167, 168, 169, 253, 254, 255},
        c \in {0, 255}, d \in {0, 1}}

ImageHosts ==
    ImageIPv4
    \cup {IPv6("::1"), IPv6("::"), IPv6("fe80::1"), IPv6("::ffff:7f00:1")}
    \cup {Domain(<<"localhost">>), Domain(<<"a", "localhost">>),
          Domain(<<"a", "b", "localhost">>), Domain(<<"localhost", "">>),
          Domain(<<"localhost", "com">>), Domain(<<"notlocalhost">>),
          Domain(<<"example", "com">>),
          Domain(<<"127", "0", "0", "1", "nip", "io">>)}

\* URLs of several schemes; a text new URL() refuses has no host.
ImageUrls ==
    {Url(lead, sc, "", TRUE, h) :
        lead \in BOOLEAN,
        sc \in {"https", "HTTPS", "http", "ftp", "file", "javascript"},
        h \in ImageHosts}
    \cup {Url(lead, sc, "", FALSE, NoHost) :
             lead \in BOOLEAN, sc \in {"https", "http", ""}}

ImageInputs ==
    {[done |-> FALSE, valid |-> FALSE, url |-> u] :
        u \in ImageNonStrings \cup {EmptyString} \cup ImageDataUrls \cup ImageUrls}

InitImage == Boot(ValidationConfigs, {ProgramEnv}, ImageInputs)

NextImage == CheckImage

SpecImage == InitImage /\ [][NextImage]_vars

(***************************************************************************)
(* The chat handler on sound requests: what it sends to the completion API *)
(* for messages of every role, with and without name, language and image.  *)
(***************************************************************************)
ForwardElements ==
    {Msg("user", Str("a", 1)), Msg("assistant", Str("b", 2)),
     Msg("system", Str("c", 3))}

ForwardMessages ==
    {Undefined, Array(<<>>)}
    \cup {Array(<<e>>) : e \in ForwardElements}
    \cup {Array(<<e, f>>) : e, f \in ForwardElements}
    \cup {Array(<<Msg("system", Str("c", 3)), Msg("user", Str("a", 1)),
                  Msg("system", Str("d", 4))>>),
          Array(<<Msg("user", Str("a", 1)), Msg("system", Str("c", 3)),
                  Msg("assistant", Str("b", 2))>>)}

ForwardImages ==
    {Undefined,
     Url(FALSE, "data", "image/png", TRUE, NoHost),
     Url(FALSE, "http", "", TRUE, Domain(<<"example", "com">>))}

ForwardRequests ==
    {[route |-> "chat", userId |-> u, body |-> Body(m, n, l, i)] :
        u \in callers, m \in ForwardMessages,
        n \in {Undefined, Str("Kevin", 5)},
        l \in {Undefined, Str("en", 2)},
        i \in ForwardImages}

InitForward == Boot(ValidationConfigs, {ProgramEnv}, {NoChecked})

NextForward ==
    \/ \E d \in {1, windowMs} : Tick(d)
    \/ \E rq \in ForwardRequests, outcome \in ChatOutcomes, upstream \in Upstreams :
          ChatRequest(rq, outcome, upstream)

SpecForward == InitForward /\ [][NextForward]_vars

(***************************************************************************)
(* The order of the chat handler's exits: requests with and without a      *)
(* signed-in user, a body, valid messages and a valid image, sent to a     *)
(* process with and without OPENAI_API_KEY and the remote limiter.         *)
(***************************************************************************)
OrderBodies ==
    {NoBody,
     Body(Array(<<Msg("user", Str("hi", 2))>>), Undefined, Undefined, Undefined),
     Body(Null, Undefined, Undefined, Undefined),
     Body(Array(<<Msg("tool", Str("hi", 2))>>), Undefined, Undefined, Undefined),
     Body(Array(<<Msg("user", Str("hi", 2))>>), Undefined, Undefined,
          Url(FALSE, "http", "", TRUE, Domain(<<"example", "com">>)))}

OrderRequests ==
    {[route |-> "chat", userId |-> u, body |-> b] :
        u \in callers \cup {None}, b \in OrderBodies}

OrderConfigs ==
    {[site |-> "chat", windowMs |-> SmallWindow, maxRequests |-> SmallMax,
      maxEntries |-> MaxEntries,
      callers |-> ChatKeys, upstash |-> u, limits |-> Tight] : u \in BOOLEAN}

InitOrder == Boot(OrderConfigs, {ProgramEnv, BareEnv}, {NoChecked})

NextOrder ==
    \/ \E d \in {1, windowMs} : Tick(d)
    \/ \E rq \in OrderRequests, outcome \in ChatOutcomes, upstream \in Upstreams :
          ChatRequest(rq, outcome, upstream)

SpecOrder == InitOrder /\ [][NextOrder]_vars

(***************************************************************************)
(* Chat checks side by side.  A check runs from its call to its await in   *)
(* one piece and from the settling of limit() to its return in another;    *)
(* between the two, other checks run and time passes.                      *)
(***************************************************************************)
\* The Map a check reads in its catch block: the Map as it is when the
\* check resumes, not as it was when the check started.
MapAtResumeSeen(current, seen) == seen
MapAtResume(current, seen) == current

\* checkChatRateLimit(key) of request r up to its await; without the remote
\* limiter it returns inMemoryChatLimiter(key) in the same piece.
ConcurrentBegin(r, key, will) ==
    /\ site = "chat"
    /\ inflight[r].pc = "idle"
    /\ MayCall(store, key, now, windowMs, Attempts(key, callers, maxRequests))
    /\ MayCall(solo, key, now, windowMs, Attempts(key, callers, maxRequests))
    /\ IF ~chatUpstashLimiter
       THEN /\ checkChatRateLimit(key, None)
            /\ inflight' = [inflight EXCEPT ![r].stale = FALSE]
       ELSE /\ inflight' = [inflight EXCEPT
                               ![r] = [pc |-> "awaiting", key |-> key, will |-> will,
                                       seen |-> store, stale |-> FALSE]]
            /\ NoCheck
    /\ UNCHANGED <<env, req, res, sent, evaluated, nextCalled, min_auth_ts,
                   awaiting, checked, quota, sync>>

\* limit() of request r has settled: the check resumes and returns.
ConcurrentSettle(r) ==
    /\ inflight[r].pc = "awaiting"
    /\ LET key == inflight[r].key
       IN \E c \in {checkChatRateLimitResult(MapAtResume(store, inflight[r].seen),
                                             key, now, windowMs, maxRequests,
                                             chatUpstashLimiter, inflight[r].will)} :
             /\ store' = IF c.path = "remote" THEN store ELSE c.store
             /\ lastResult' = c.blocked
             /\ lastRaised' = c.raised
             /\ lastPath' = c.path
             /\ remoteCalled' = (remoteCalled \/ c.remote)
             /\ lastKey' = key
             /\ IF c.path = "remote"
                THEN /\ lastFound' = NoFound
                     /\ ref' = NoRef
                     /\ UNCHANGED <<hit, solo, track, burst, tally>>
                ELSE /\ LocalHistory(key, c)
                     /\ ref' = IF ref = NoRef THEN NoRef
                               ELSE checkRateLimit(ref, key, now, windowMs,
                                                   maxRequests).store
    /\ inflight' = [inflight EXCEPT
                       ![r] = [pc |-> "idle", key |-> None, will |-> None,
                               seen |-> <<>>,
                               stale |-> inflight[r].seen # store]]
    /\ UNCHANGED <<config, now>>
    /\ UNCHANGED <<env, req, res, sent, evaluated, nextCalled, min_auth_ts,
                   awaiting, checked, quota, sync>>

\* One user, the scaled-down chat limiter with and without the remote one.
ConcurrentConfigs ==
    {[site |-> "chat", windowMs |-> SmallWindow, maxRequests |-> SmallMax,
      maxEntries |-> MaxEntries,
      callers |-> ChatKeys, upstash |-> u, limits |-> Narrow] : u \in BOOLEAN}

InitConcurrent == Boot(ConcurrentConfigs, {ProgramEnv}, {NoChecked})

NextConcurrent ==
    \/ \E d \in {1, windowMs} : Tick(d)
    \/ \E r \in Requests, key \in callers, will \in {"success", "limited", "throw"} :
          ConcurrentBegin(r, key, will)
    \/ \E r \in Requests : ConcurrentSettle(r)

SpecConcurrent == InitConcurrent /\ [][NextConcurrent]_vars

(***************************************************************************)
(* useSync and /api/sync: one client of a user whose blob an earlier       *)
(* session may have stored.  The GET of the down-sync and each POST of a   *)
(* syncUp reach the server at a time of their own.                         *)
(***************************************************************************)
SyncValues == {1, 2}
Blobs == [SyncKeys -> {0} \cup SyncValues]

\* Every variable but sync.
besideSync == <<config, store, now, lastKey, lastResult, lastRaised, lastPath,
                lastFound, remoteCalled, hit, solo, ref, track, burst, tally,
                env, req, res, sent, evaluated, nextCalled, min_auth_ts, awaiting,
                checked, quota, inflight>>

\* updateUserData(code, data) of an earlier session, before the hook mounts.
EarlierSession(b) ==
    /\ sync = NoSync
    /\ b # NoBlob
    /\ sync' = [sync EXCEPT !.server = b]
    /\ UNCHANGED besideSync

\* The effect on mount: syncDown() sends its GET.
SyncDownFetch ==
    /\ sync.down = "idle"
    /\ sync' = [sync EXCEPT !.down = "fetching"]
    /\ UNCHANGED besideSync

\* app.get('/api/sync') answers: the blob as it is now, or a status that is
\* not ok.
SyncDownServe(ok) ==
    /\ sync.down = "fetching"
    /\ sync' = IF ok
               THEN [sync EXCEPT !.down = "served", !.fetched = sync.server]
               ELSE [sync EXCEPT !.down = "refused"]
    /\ UNCHANGED besideSync

\* syncDown after its awaits: userDataRef.current = serverData, or the
\* catch block.
SyncDownResume ==
    /\ sync.down \in {"served", "refused"}
    /\ sync' = IF sync.down = "served"
               THEN [sync EXCEPT !.down = "done", !.ref = sync.fetched]
               ELSE [sync EXCEPT !.down = "failed"]
    /\ UNCHANGED besideSync

\* syncUp(key, value) up to its await: newData = {...currentData, [key]: value}
\* becomes userDataRef.current and is POSTed.
SyncUp(key, value) ==
    /\ sync.down # "idle"
    /\ Len(sync.posts) < MaxPosts
    /\ LET newData == [sync.ref EXCEPT ![key] = value]
       IN sync' = [sync EXCEPT
                     !.ref = newData,
                     !.posts = Append(@, [blob |-> newData, stored |-> FALSE]),
                     !.up = [key |-> key, blob |-> newData, before |-> sync.server]]
    /\ UNCHANGED besideSync

\* app.post('/api/sync') for the i-th POST: updateUserData stores its blob.
SyncPostStore(i) ==
    /\ i \in 1..Len(sync.posts)
    /\ ~sync.posts[i].stored
    /\ sync' = [sync EXCEPT !.server = sync.posts[i].blob,
                            !.posts[i].stored = TRUE]
    /\ UNCHANGED besideSync

InitSync == Start(ProgramConfigs)

NextSync ==
    \/ \E b \in Blobs : EarlierSession(b)
    \/ SyncDownFetch
    \/ \E ok \in BOOLEAN : SyncDownServe(ok)
    \/ SyncDownResume
    \/ \E key \in SyncKeys, value \in SyncValues : SyncUp(key, value)
    \/ \E i \in 1..MaxPosts : SyncPostStore(i)

SpecSync == InitSync /\ [][NextSync]_vars

(***************************************************************************)
(* Properties.                                                             *)
(***************************************************************************)
\* The latest check was answered by the in-memory limiter.
LocalCall == lastPath \in {"local", "fallback"}

\* The latest check was a local call for the key the history follows.
WatchedCall == LocalCall /\ lastKey = Watched(callers)

\* The run the history follows has just received the latest call.
RunCall == WatchedCall /\ track.key = lastKey

\* C1: for a key with no live entry, while the store stays at or below
\* MAX_ENTRIES, calls 1..maxRequests of the run inside one window
\* return false and call maxRequests + 1 returns true (20 and 21 for the
\* chat policy, 5 and 6 for the login policy).
C1_FirstCallsAdmitThenBlock ==
    (RunCall /\ ~track.over) =>
        /\ track.n <= maxRequests => lastResult = FALSE
        /\ track.n = maxRequests + 1 => lastResult = TRUE

C1_Witness ==
    /\ RunCall /\ ~track.over
    /\ windowMs = CHAT_RATE_WINDOW /\ maxRequests = CHAT_RATE_MAX
    /\ track.n = CHAT_RATE_MAX + 1 /\ track.adm = CHAT_RATE_MAX
    /\ lastResult = TRUE

\* C2 as claimed: the limit holds over every interval of length windowMs:
\* the calls of one key admitted at two instants at most windowMs apart are
\* at most maxRequests (no capacity eviction involved).
C2_SlidingWindowBound ==
    (~hit /\ burst.prevAt # -1 /\ burst.at - burst.prevAt <= windowMs) =>
        burst.adm + burst.prevAdm <= maxRequests

\* C2 amended: a local call returns true exactly when, after its sweep and
\* eviction, the key has a live entry that already counts maxRequests or
\* more calls since its windowStart; so at most maxRequests calls of a key
\* are admitted per fixed window, that is per entry.
C2_FixedWindowBound ==
    /\ LocalCall =>
         (lastResult = TRUE <=>
             (lastFound.kind = "live" /\ lastFound.count >= maxRequests))
    /\ (track.key # None /\ ~track.evicted) => track.adm <= maxRequests

C2_Witness ==
    /\ ~hit /\ burst.prevAt # -1 /\ burst.at - burst.prevAt <= windowMs
    /\ burst.adm + burst.prevAdm > maxRequests
    /\ track.key # None /\ ~track.evicted
    /\ LocalCall /\ lastResult = FALSE

\* C3: a call that finds its key's entry expired returns false, leaves
\* {count: 1, windowStart: now} whatever the old count was, and leaves the
\* store exactly as the same call would for a key the store never held.
C3_ExpiredIsFresh ==
    [][lastFound'.kind = "expired" =>
         LET fresh == checkRateLimit(DeleteAll(store, {lastKey'}), lastKey',
                                     now, windowMs, maxRequests)
         IN /\ lastResult' = FALSE
            /\ Get(store', lastKey') =
                   [key |-> lastKey', count |-> 1, windowStart |-> now]
            /\ lastResult' = fresh.blocked
            /\ store' = fresh.store]_vars

C3_Witness ==
    /\ lastFound.kind = "expired" /\ lastFound.count > maxRequests
    /\ lastResult = FALSE
    /\ Len(store) > 1
    /\ Get(store, lastKey).count = 1 /\ Get(store, lastKey).windowStart = now

\* What the limiter that receives only the watched key's calls returned
\* for the latest of them.
SoloBlocked == Get(solo, Watched(callers)).count > maxRequests

\* C4 as claimed: the result of every call for a key is the result the
\* same call gets when the calls for all other keys are left out.
C4_KeysIndependent == WatchedCall => lastResult = SoloBlocked

\* C4 amended: the same, as long as no capacity eviction has deleted the
\* key's entry.
C4_KeysIndependentUnlessEvicted == (WatchedCall /\ ~hit) => lastResult = SoloBlocked

C4_Witness ==
    /\ WatchedCall /\ ~hit
    /\ lastResult = TRUE
    /\ Len(store) > 1
    /\ \E i \in 1..Len(store) : store[i].key # lastKey /\ store[i].count > 1

\* C5 as claimed: after a call for a key returned true, every later call
\* for it within windowMs of that window's start returns true.
C5_StaysBlocked == (RunCall /\ track.prior) => lastResult = TRUE

\* C5 amended: the same, as long as no capacity eviction has deleted the
\* key's entry since the window started.
C5_StaysBlockedUnlessEvicted ==
    (RunCall /\ track.prior /\ ~track.evicted) => lastResult = TRUE

C5_Witness ==
    /\ RunCall /\ track.prior /\ ~track.evicted
    /\ track.over
    /\ track.n = maxRequests + 2
    /\ lastResult = TRUE

\* C6 as claimed: when a limiter call has returned, the store holds at most
\* MAX_ENTRIES entries.
C6_StoreWithinCap == Len(store) <= maxEntries

\* The step is a local call that runs the capacity eviction.
EvictionStep ==
    /\ lastFound'.kind # None
    /\ Len(Sweep(store, now, windowMs)) > maxEntries

\* C7 as claimed: a capacity eviction keeps the most recently touched
\* keys: when it keeps a key whose latest call is earlier than the latest
\* call of the watched key, it keeps the watched key too, window unchanged.
\* (burst.at is the instant of the watched key's latest call; a key with
\* count 1 was last called at its windowStart.)
C7_RecentlyTouchedSurvive ==
    [][(EvictionStep /\ Has(Sweep(store, now, windowMs), Watched(callers))) =>
          LET swept == Sweep(store, now, windowMs)
              mine == Watched(callers)
              kept(e) == /\ Has(store', e.key)
                         /\ Get(store', e.key).windowStart = e.windowStart
          IN \A i \in 1..Len(swept) :
                (/\ swept[i].key # mine
                 /\ swept[i].count = 1
                 /\ swept[i].windowStart < burst.at
                 /\ kept(swept[i]))
                => kept(Get(swept, mine))]_vars

\* C7 amended: of the n entries a capacity eviction meets, the n \div 2 with
\* the latest windowStart (of equal ones, those inserted later) stay with
\* count and windowStart unchanged, but for the increment of the called
\* key; the other entries, those with the oldest windowStart, are deleted
\* however recently their keys were called, and a deleted key is a fresh
\* key (admitted, count 1) on its next call.
C7_OldestWindowsEvicted ==
    [][EvictionStep =>
          LET swept == Sweep(store, now, windowMs)
              n == Len(swept)
              k == lastKey'
              stays(i) ==
                  /\ Has(store', swept[i].key)
                  /\ Get(store', swept[i].key).windowStart = swept[i].windowStart
                  /\ Get(store', swept[i].key).count =
                        IF swept[i].key = k THEN swept[i].count + 1
                        ELSE swept[i].count
              S == {i \in 1..n : stays(i)}
              R == (1..n) \ S
          IN /\ Cardinality(S) = n \div 2
             /\ \A r \in R, q \in S :
                   \/ swept[r].windowStart < swept[q].windowStart
                   \/ swept[r].windowStart = swept[q].windowStart /\ r < q
             /\ \A r \in R :
                   IF swept[r].key = k
                   THEN /\ lastResult' = FALSE
                        /\ Get(store', k) =
                              [key |-> k, count |-> 1, windowStart |-> now]
                   ELSE /\ ~Has(store', swept[r].key)
                        /\ LET nxt == checkRateLimit(store', swept[r].key, now,
                                                     windowMs, maxRequests)
                           IN /\ ~nxt.blocked
                              /\ Get(nxt.store, swept[r].key).count = 1]_vars

C7_Witness ==
    /\ LocalCall
    /\ Cardinality(lastFound.evicted) = 2
    /\ Watched(callers) \in lastFound.evicted
    /\ lastKey \notin lastFound.evicted
    /\ lastFound.kind = "live"
    /\ Len(store) = 2
    /\ burst.at = now /\ \E i \in 1..Len(store) : store[i].windowStart < now

\* What the local-only reference limiter returned for the latest check.
RefBlocked == Get(ref, lastKey).count > maxRequests

\* C8: a check whose remote call fails returns what the in-memory limiter
\* returns for that key at that time and records the attempt there; while
\* every call of the remote limiter has failed, the store is the store of a
\* local-only limiter given the same checks at the same times, every check
\* returned what that limiter returned, and a run of calls is first
\* admitted and then blocked.
C8_FallbackIsLocal ==
    /\ lastPath = "fallback" =>
          /\ lastResult = (lastFound.kind = "live" /\ lastFound.count >= maxRequests)
          /\ Has(store, lastKey)
          /\ Get(store, lastKey).count =
                IF lastFound.kind = "live" THEN lastFound.count + 1 ELSE 1
    /\ (chatUpstashLimiter /\ ref # NoRef) =>
          /\ store = ref
          /\ lastPath # "remote"
          /\ lastPath = "fallback" => lastResult = RefBlocked
          /\ (RunCall /\ ~track.over) =>
                /\ track.n = 1 => lastResult = FALSE
                /\ track.n = maxRequests + 1 => lastResult = TRUE

C8_Witness ==
    /\ chatUpstashLimiter /\ ref # NoRef /\ remoteCalled
    /\ lastPath = "fallback" /\ lastResult = TRUE
    /\ \E i \in 1..Len(store) : store[i].key # lastKey

\* C9: without a remote limiter every chat check is answered by the
\* in-memory limiter and limit() is never invoked.
C9_NoRemoteWithoutConfig ==
    ~chatUpstashLimiter => (~remoteCalled /\ lastPath \in {None, "local"})

C9_Witness ==
    /\ ~chatUpstashLimiter /\ site = "chat"
    /\ lastPath = "local" /\ lastResult = TRUE
    /\ ~remoteCalled

\* C10: every check returns a boolean; none throws, whatever the key, the
\* store size and the outcome of the remote call.
C10_NeverRaises == lastRaised = FALSE /\ lastResult \in BOOLEAN

C10_Witness ==
    /\ lastPath = "fallback"
    /\ Cardinality(lastFound.evicted) = maxEntries
    /\ ~lastRaised /\ lastResult = FALSE

\* The step is a request to the given route (the clock stands still while a
\* handler runs).
Handled(route) == now' = now /\ req'.route = route

\* C12: a chat request whose rate-limit check returns block is answered 429
\* and sends nothing to the completion API; the completion API is called
\* only by a request whose check admitted it.
C12_BlockedChatNotForwarded ==
    [][Handled("chat") =>
          /\ (lastKey' # None /\ lastResult') => (res' = 429 /\ sent' = NoSent)
          /\ sent' # NoSent =>
                (lastKey' = req'.userId /\ ~lastResult' /\ res' \in {200, 500})]_vars

C12_Witness ==
    /\ req.route = "chat" /\ lastKey = req.userId
    /\ lastPath = "fallback" /\ lastResult = TRUE
    /\ res = 429 /\ sent = NoSent
    /\ ValidateMessages(req.body.messages).status = 0

\* C13: a sign-in attempt on which the login limiter returns block is
\* answered 429 and neither reads the stored hash nor compares the
\* password; credentials are evaluated only on admitted attempts.
C13_BlockedLoginNotEvaluated ==
    [][Handled("login") =>
          /\ lastKey' # None
          /\ lastResult' => (res' = 429 /\ evaluated' = NoEvaluated)
          /\ (evaluated'.hashRead \/ evaluated'.compared) =>
                (~lastResult' /\ res' # 429)]_vars

C13_Witness ==
    /\ req.route = "login" /\ lastKey # None
    /\ lastResult = TRUE
    /\ windowMs = ADMIN_LOGIN_RATE_WINDOW /\ maxRequests = ADMIN_LOGIN_RATE_MAX
    /\ Get(store, lastKey).count = ADMIN_LOGIN_RATE_MAX + 1
    /\ req.password = "right"
    /\ res = 429 /\ evaluated = NoEvaluated

\* C14 as claimed: every sign-in attempt is counted against the key of the
\* address it comes from, whatever its headers, so that at most maxRequests
\* attempts from one address are admitted per window.
C14_KeyedByClientAddress ==
    /\ (req.route = "login" /\ lastKey # None) => lastKey = req.ip
    /\ quota.admitted <= maxRequests

\* C11: a chat rate-limit check that was started returns, and one whose
\* backend sent no answer returns the verdict of the local limiter.
C11_UnansweredFallsBackAndReturns ==
    /\ (awaiting.key # None) ~> (awaiting.key = None)
    /\ []((awaiting.key = None /\ ~awaiting.answered /\ lastKey # None)
            => lastPath = "fallback")

\* The request reached the validation of its messages: the limiter was
\* asked and admitted it.
Validated ==
    req.route = "chat" /\ lastKey # None /\ ~lastResult /\ ~lastRaised

\* An element the validation refuses.
BadElement(e) ==
    \/ e.type # "object"
    \/ e.role.type # "string"
    \/ e.role.value \notin {"user", "assistant", "system"}
    \/ e.content.type # "string"
    \/ e.content.length > 4000

\* The positions of the user and assistant messages of a sound array.
Speaking(items) ==
    {i \in 1..Len(items) : items[i].role.value # "system"}

\* The k-th of these messages, in the order of the array.
KthSpeaking(items, k) ==
    LET i == CHOOSE x \in Speaking(items) :
                 Cardinality({y \in Speaking(items) : y < x}) = k - 1
    IN [role |-> items[i].role.value, content |-> items[i].content]

\* C18: a request whose messages are given and no array, hold an unsound
\* element, or hold more than 50 user and assistant messages is answered
\* 400 and nothing is forwarded; every other request is forwarded with
\* exactly its user and assistant messages, in their order.
C18_ValidationRejectsExactly ==
    Validated =>
        LET m == req.body.messages
            items == IF m.type = "array" THEN m.items ELSE <<>>
        IN IF \/ m.type \notin {"undefined", "array"}
              \/ \E i \in 1..Len(items) : BadElement(items[i])
              \/ Cardinality(Speaking(items)) > 50
           THEN res = 400 /\ sent = NoSent
           ELSE /\ res \in {200, 500}
                /\ Len(sent) = 2 + Cardinality(Speaking(items))
                /\ \A k \in 1..Cardinality(Speaking(items)) :
                      sent[2 + k] = KthSpeaking(items, k)

\* A request with a system message and exactly 50 messages of users and
\* assistants was forwarded with these 50.
C18_Witness ==
    /\ Validated
    /\ req.body.messages.type = "array"
    /\ Len(req.body.messages.items) > 50
    /\ Len(sent) = 2 + 50
    /\ res = 200

\* The header starts with 'Bearer ' and the rest is a JWT over its own
\* payload, signed with the secret of the environment and not expired at t.
Authentic(h, secret, t) ==
    /\ h.type = "string"
    /\ h.scheme = "Bearer "
    /\ secret # ""
    /\ h.token.form = "jwt"
    /\ h.token.signed = h.token.payload
    /\ h.token.key = secret
    /\ (h.token.exp # -1 => h.token.exp * 1000 > t - (t % 1000))

High(o) == o[1] * 256 + o[2]
Low(o) == o[3] * 256 + o[4]
Leading(o, bits) == High(o) \div (2 ^ (16 - bits))

\* A host the function must refuse: localhost and its subdomains, ::1,
\* 0.0.0.0, 127/8, 10/8, 172.16/12, 192.168/16, 169.254/16.
Refused(h) ==
    \/ h.kind = "name" /\ Len(h.labels) >= 1 /\ h.labels[Len(h.labels)] = "localhost"
    \/ h.kind = "ipv6" /\ h.text = "::1"
    \/ h.kind = "ipv4" /\
          \/ High(h.octets) = 0 /\ Low(h.octets) = 0
          \/ Leading(h.octets, 8) = 127
          \/ Leading(h.octets, 8) = 10
          \/ Leading(h.octets, 12) = 172 * 16 + 1
          \/ Leading(h.octets, 16) = 192 * 256 + 168
          \/ Leading(h.octets, 16) = 169 * 256 + 254

\* The arguments the function must accept.
Permitted(u) ==
    /\ u.type = "string"
    /\ u.length > 0
    /\ \/ ~u.lead /\ u.scheme = "data" /\ u.media \in {"image/png", "image/svg+xml"}
       \/ /\ u.wellformed
          /\ u.scheme \in {"https", "HTTPS"}
          /\ ~Refused(u.host)

\* C20: isValidImageUrl returns true exactly for a string that starts with
\* data:image/ or parses as an https URL whose host is none of localhost,
\* *.localhost, ::1, 0.0.0.0 and the private IPv4 ranges.
C20_ValidExactlyWhenPermitted ==
    checked.done => (checked.valid <=> Permitted(checked.url))

\* An https URL whose host is the first address past 172.16/12 was accepted.
C20_Witness ==
    /\ checked.done
    /\ checked.valid
    /\ checked.url.host.kind = "ipv4"
    /\ checked.url.host.octets = <<172, 32, 0, 0>>

\* C17: only a limiter call changes the store: the session reset and the
\* requests that end before the limiter leave every entry as it is, and an
\* entry leaves the store only through the sweep or the eviction of a call.
C17_OnlyLimiterCallsChangeStore ==
    [][/\ store' # store =>
             (lastKey' # None /\ lastPath' \in {"local", "fallback"}
                /\ req'.route \in {"chat", "login"})
       /\ Handled("reset") => store' = store
       /\ \A i \in 1..Len(store) :
             ~Has(store', store[i].key) =>
                \/ Expired(store[i], now, windowMs)
                \/ store[i].key \in EvictedKeys(Sweep(store, now, windowMs))]_vars

C17_Witness ==
    /\ req.route = "reset" /\ nextCalled /\ res = 200
    /\ min_auth_ts = now /\ now > 0
    /\ Len(store) > 1
    /\ \E i \in 1..Len(store) : store[i].count > maxRequests

\* C15 as claimed: every entry has count >= 1; the count of a key's entry
\* is the number of limiter calls made for the key since the entry's
\* windowStart, admitted and blocked alike; and a call leaves its key's
\* entry with the live count plus one, or with count 1.
C15_CountIsCallsSinceWindowStart ==
    /\ \A i \in 1..Len(store) : store[i].count >= 1
    /\ Has(store, Watched(callers)) =>
          /\ Get(store, Watched(callers)).windowStart = tally.start
          /\ Get(store, Watched(callers)).count = tally.n
    /\ LocalCall =>
          /\ Has(store, lastKey)
          /\ Get(store, lastKey).count =
                IF lastFound.kind = "live" THEN lastFound.count + 1 ELSE 1

\* C15 amended: the same, but the count leaves out the calls made at the
\* instant windowStart before a capacity eviction deleted the key's entry:
\* the entry created again at that instant starts at 1.
C15_CountIsCallsSinceCreation ==
    /\ \A i \in 1..Len(store) : store[i].count >= 1
    /\ Has(store, Watched(callers)) =>
          /\ Get(store, Watched(callers)).windowStart = tally.start
          /\ ~tally.cut => Get(store, Watched(callers)).count = tally.n
          /\ Get(store, Watched(callers)).count <= tally.n
    /\ LocalCall =>
          /\ Has(store, lastKey)
          /\ Get(store, lastKey).count =
                IF lastFound.kind = "live" THEN lastFound.count + 1 ELSE 1

C15_Witness ==
    /\ WatchedCall /\ lastResult = TRUE
    /\ ~tally.cut
    /\ tally.n = maxRequests + 2
    /\ Get(store, lastKey).count = maxRequests + 2
    /\ lastFound.kind = "live" /\ lastFound.count = maxRequests + 1

\* C16: when a limiter call made at time now has returned, no entry of the
\* store, of whatever key, is expired at now.
C16_NoExpiredEntryAfterCall ==
    LocalCall =>
        /\ \A i \in 1..Len(store) : now - store[i].windowStart <= windowMs
        /\ \A k \in lastFound.expired \ {lastKey} : ~Has(store, k)

C16_Witness ==
    /\ LocalCall
    /\ \E k \in lastFound.expired : k # lastKey /\ ~Has(store, k)
    /\ lastFound.kind = "live"
    /\ Len(store) >= 1

C22_OlderHalfEvicted ==
    [][LocalCall' =>
          LET swept == Sweep(store, now, windowMs)
              n == Len(swept)
              k == lastKey'
              same(i) ==
                  /\ Has(store', swept[i].key)
                  /\ Get(store', swept[i].key) =
                        IF swept[i].key = k
                        THEN [swept[i] EXCEPT !.count = @ + 1]
                        ELSE swept[i]
              D == {i \in 1..n : ~same(i)}
          IN IF n <= maxEntries
             THEN D = {}
             ELSE /\ 2 * Cardinality(D) \in {n, n + 1}
                  /\ \A d \in D, s \in (1..n) \ D :
                        swept[d].windowStart <= swept[s].windowStart
                  /\ \A d \in D :
                        Has(store', swept[d].key) =>
                           /\ swept[d].key = k
                           /\ Get(store', k).count = 1]_vars

\* Three entries met the eviction: two were deleted and the called key's
\* entry, the latest, was kept and incremented.
C22_Witness ==
    /\ LocalCall
    /\ maxEntries = MaxEntries
    /\ Cardinality(lastFound.evicted) = MaxEntries
    /\ lastFound.kind = "live"
    /\ Len(store) = 1
    /\ Get(store, lastKey).count = lastFound.count + 1

\* The step is a local call for a key whose entry is inside its window.
InWindowCall ==
    /\ LocalCall'
    /\ Has(store, lastKey')
    /\ now - Get(store, lastKey').windowStart <= windowMs

C24_OnlyServerSystemMessages ==
    sent # NoSent =>
        /\ Len(sent) >= 2
        /\ sent[1] = [role |-> "system", content |-> [type |-> "SYSTEM_PROMPT"]]
        /\ sent[2].role = "system"
        /\ sent[2].content.type = "LANGUAGE_INSTRUCTIONS"
        /\ sent[2].content.lang \in {"en", "nl"}
        /\ \A i \in 3..Len(sent) : sent[i].role \in {"user", "assistant"}

\* A request with two system messages of the client around a user message,
\* a name and an image passed the validation and was forwarded.
C24_Witness ==
    /\ req.route = "chat" /\ res = 200 /\ sent # NoSent
    /\ req.body.messages.type = "array"
    /\ Len(req.body.messages.items) = 3
    /\ req.body.messages.items[1].role.value = "system"
    /\ req.body.messages.items[3].role.value = "system"
    /\ Truthy(req.body.name) /\ Truthy(req.body.image)
    /\ Len(sent) = 4

\* C25: however the chat checks of one key interleave, after n of them were
\* answered by the in-memory limiter inside one window the entry counts n
\* and max(0, n - maxRequests) of them were blocked.
C25_NoLostIncrement ==
    RunCall =>
        /\ Get(store, lastKey).count = track.n
        /\ track.n - track.adm =
              IF track.n > maxRequests THEN track.n - maxRequests ELSE 0

\* Two checks were under way together; the one that resumed last found the
\* Map changed since its start and was counted as the third call, blocked.
C25_Witness ==
    /\ RunCall
    /\ lastPath = "fallback"
    /\ \E r \in Requests : inflight[r].stale
    /\ track.n = maxRequests + 1
    /\ lastResult = TRUE

\* C26: from the empty Map on, after every limiter call the Map holds at
\* most MAX_ENTRIES + 1 entries.
C26_StoreWithinCapPlusOne == Len(store) <= maxEntries + 1

\* A call for a new key has just brought the Map to MAX_ENTRIES + 1
\* entries, after an earlier call had run the capacity eviction.
C26_Witness ==
    /\ LocalCall
    /\ lastFound.kind = "absent"
    /\ Len(store) = maxEntries + 1
    /\ hit

\* C27: a chat check that the remote limiter answers leaves the Map as it
\* was and returns TRUE exactly when the answer's success flag is false; a
\* check that falls back for a key without an entry, whatever the remote
\* answered before, creates the entry with count 1 and admits the call.
C27_RemoteAnswerLeavesLocalStore ==
    [][/\ lastPath' = "remote" =>
             /\ store' = store
             /\ lastRaised' = FALSE
             /\ \E outcome \in {"success", "limited"} :
                   /\ CheckChat(lastKey', outcome)
                   /\ lastResult' = (outcome = "limited")
             /\ \A outcome \in {"throw", "reject"} : ~CheckChat(lastKey', outcome)
       /\ (lastPath' = "fallback" /\ ~Has(store, lastKey')) =>
             /\ Has(store', lastKey')
             /\ Get(store', lastKey').count = 1
             /\ lastResult' = FALSE]_vars

\* The only caller's first check that fell back, at the instant at which
\* the remote limiter had answered checks of it: the entry counts 1.
C27_Witness ==
    /\ chatUpstashLimiter /\ callers = ChatKeys
    /\ ref = NoRef /\ now = 0
    /\ lastPath = "fallback" /\ lastFound.kind = "absent"
    /\ Get(store, lastKey).count = 1
    /\ lastResult = FALSE

\* C28: a chat request of a signed-in user that has a body makes exactly
\* one limiter check for the user's key, whatever the handler answers
\* afterwards (400 for the messages or the image included); a request
\* answered 500 for the missing API key, 401, or 400 for the missing body
\* makes none.
C28_CheckAfterAuthBeforeValidation ==
    [][(now' = now /\ req'.route = "chat") =>
          IF ~env.OPENAI_API_KEY
          THEN res' = 500 /\ lastKey' = None /\ store' = store
                  /\ remoteCalled' = remoteCalled
          ELSE IF req'.userId = None
          THEN res' = 401 /\ lastKey' = None /\ store' = store
                  /\ remoteCalled' = remoteCalled
          ELSE IF req'.body.type = "undefined"
          THEN res' = 400 /\ lastKey' = None /\ store' = store
                  /\ remoteCalled' = remoteCalled
          ELSE /\ lastKey' = req'.userId
               /\ \/ /\ lastPath' = "remote"
                     /\ chatUpstashLimiter /\ remoteCalled'
                     /\ store' = store
                  \/ /\ lastPath' \in {"local", "fallback"}
                     /\ remoteCalled' = (remoteCalled \/ chatUpstashLimiter)
                     /\ store' = checkRateLimit(store, req'.userId, now, windowMs,
                                                maxRequests).store
               /\ (res' = 400) =
                     (/\ ~lastResult' /\ ~lastRaised'
                      /\ \/ ValidateMessages(req'.body.messages).status # 0
                         \/ /\ Truthy(req'.body.image)
                            /\ ~isValidImageUrl(req'.body.image))]_vars

\* A request with valid messages and an invalid image was answered 400,
\* and it was the user's second counted attempt of the window.
C28_Witness ==
    /\ req.route = "chat" /\ res = 400
    /\ ValidateMessages(req.body.messages).status = 0
    /\ Truthy(req.body.image)
    /\ lastKey = req.userId /\ LocalCall
    /\ lastFound.kind = "live"
    /\ Get(store, lastKey).count = 2

\* C29: every sign-in request is one call of the login limiter for its key,
\* made whatever its password is and whatever the handler answers: a live
\* entry's count grows by one also on a request answered 200, and a request
\* that meets a live entry with maxRequests attempts is answered 429.
C29_EverySignInCounts ==
    [][Handled("login") =>
          LET key == ClientIp(req'.xff, req'.ip)
              f == Found(store, key, now, windowMs)
          IN /\ lastKey' = key
             /\ store' = checkRateLimit(store, key, now, windowMs, maxRequests).store
             /\ f.kind = "live" =>
                   /\ Get(store', key).count = Get(store, key).count + 1
                   /\ Get(store', key).windowStart = Get(store, key).windowStart
                   /\ (res' = 429) = (Get(store, key).count >= maxRequests)
             /\ f.kind # "live" =>
                   /\ Get(store', key).count = 1
                   /\ res' # 429]_vars

\* The fifth request of a 15-minute window carried the right password, was
\* answered 200, and the entry counts it: the sixth will be blocked.
C29_Witness ==
    /\ req.route = "login" /\ lastKey # None
    /\ windowMs = ADMIN_LOGIN_RATE_WINDOW /\ maxRequests = ADMIN_LOGIN_RATE_MAX
    /\ req.password = "right" /\ res = 200
    /\ lastFound.kind = "live"
    /\ Get(store, lastKey).count = ADMIN_LOGIN_RATE_MAX
    /\ now > Get(store, lastKey).windowStart

\* C30 as claimed: the blob a syncUp(key, value) POSTs holds every other
\* key the server held when syncUp was called, with its value.
C30_SyncUpKeepsOtherKeys ==
    sync.up.key # None =>
        \A k \in SyncKeys \ {sync.up.key} :
            sync.up.before[k] # 0 => sync.up.blob[k] = sync.up.before[k]

TypeOK ==
    /\ site \in {"chat", "login"}
    /\ now \in Nat
    /\ lastKey \in Keys \cup {None}
    /\ \A i \in 1..Len(store) : store[i].count >= 1

====
